---- MODULE Spec2Model ----
(***************************************************************************)
(* A model of the protocol core of ellidri (an IRC server): the mask set   *)
(* and the glob matcher of src/util.rs, the channel model of               *)
(* src/channel.rs, the message builders of ellidri-tokens/src/buffers.rs,  *)
(* and the listener control loop and the per-peer writer of src/net.rs and *)
(* src/lib.rs.                                                             *)
(*                                                                         *)
(* A Rust string is modelled as a sequence of characters, each character a *)
(* one-character TLA+ string.  The character Wide stands for a character   *)
(* that UTF-8 encodes on two bytes (such as U+00E9); every other character *)
(* of the model is ASCII and takes one byte.  Byte offsets, which the code *)
(* uses to slice strings, are computed from these widths.                  *)
(***************************************************************************)
EXTENDS Integers, Sequences, FiniteSets, TLC

VARIABLES
    raw,        \* MaskSet.raw, the comma-joined storage of one mask set
    held,       \* history: masks whose insert returned true, not yet removed with true
    ms_call,    \* history: the last MaskSet call, its result and the raw before it
    m_mask,     \* match_mask: the mask argument
    m_s,        \* match_mask: the string argument
    m_out,      \* match_mask: the outcome, "none" before the call
    chan,       \* one Channel
    ch_call,    \* history: the last call on chan, its arguments, result and the channel before it
    nops,       \* history: the number of calls made on chan
    cc_modes,   \* can_change: the MemberModes it is called on
    cc_query,   \* can_change: the mode query
    cc_out,     \* can_change: the result, "none" before the call
    rb,         \* one ReplyBuffer: buf, batch, has_label
    tl,         \* the thread-locals DOMAIN, NICKNAME and LABEL of buffers.rs
    rb_args,    \* history: the arguments of the ReplyBuffer::new that made rb
    rb_call,    \* history: the last call on rb, its outcome and rb before it
    rb_n,       \* history: the number of calls made on the thread's reply buffers
    b_buf,      \* Buffer.buf, the string the builders write to
    b_live,     \* the builder that borrows b_buf: none, a TagBuffer or a MessageBuffer
    b_started,  \* history: the number of messages started on b_buf since it was last empty
    b_unfinished, \* history: the number of TagBuffers dropped before prefixed_command
    b_n,        \* history: the number of builder calls made
    b_call,     \* history: the last builder call, and the tags and the start of the message under way
    listener,   \* the position of each listener task
    permit,     \* the permit of the failures Notify
    ctl_pc,     \* the position of the control task
    num_bindings, \* control's local count of listeners left
    outgoing_msgs, \* the peer's unbounded channel: strings enqueued, not yet received
    senders,    \* whether the sending half msg_queue is still alive
    og,         \* the outgoing task: position, the string being written, bytes written of it
    socket,     \* the bytes written to the peer's socket
    enqueued,   \* history: every string enqueued, in enqueue order
    bufs,       \* the ReplyBuffers alive on one thread, each with the arguments that made it
    shared_tl,  \* the thread-locals DOMAIN, NICKNAME and LABEL those buffers share
    th_n,       \* history: the number of calls made on those buffers
    now,        \* the clock of one connection, in milliseconds
    h_pc,       \* the position of handle (or of handle_tcp, handle_tls before it)
    peer_id,    \* the id peer_joined returned, None before
    peer,       \* the state's entry of the peer: none, Unregistered, Registered or removed
    msg_queue,  \* the channel of the peer: its sending half (none, alive or dropped)
                \* and the number of strings it holds
    timer,      \* the login_timeout task: position, deadline and what it found
    timers,     \* history: the number of login_timeout tasks spawned
    in_pc,      \* the incoming future: read, sleep or err
    out_pc,     \* the outgoing future: recv, write, ok or err
    res,        \* the error try_join resolved with, None before
    used_points, \* rate_limit!: used_points
    last_round, \* rate_limit!: last_round
    wake_at,    \* rate_limit!: the end of the delay_for under way
    round,      \* history: the last round of rate_limit!
    wrote,      \* history: the number of strings written to the socket
    quits,      \* history: the number of peer_quit calls
    quit_err    \* history: the error handed to peer_quit

vars ==
    <<raw, held, ms_call, m_mask, m_s, m_out, chan, ch_call, nops,
      cc_modes, cc_query, cc_out,
      rb, tl, rb_args, rb_call, rb_n, b_buf, b_live, b_started, b_unfinished, b_n, b_call,
      listener, permit, ctl_pc, num_bindings,
      outgoing_msgs, senders, og, socket, enqueued,
      bufs, shared_tl, th_n,
      now, h_pc, peer_id, peer, msg_queue, timer, timers, in_pc, out_pc, res,
      used_points, last_round, wake_at, round, wrote, quits, quit_err>>

maskSetVars == <<raw, held, ms_call>>
matchVars == <<m_mask, m_s, m_out>>
chanVars == <<chan, ch_call, nops>>
canChangeVars == <<cc_modes, cc_query, cc_out>>
replyVars == <<rb, tl, rb_args, rb_call, rb_n>>
builderVars == <<b_buf, b_live, b_started, b_unfinished, b_n, b_call>>
controlVars == <<listener, permit, ctl_pc, num_bindings>>
outgoingVars == <<outgoing_msgs, senders, og, socket, enqueued>>
threadVars == <<bufs, shared_tl, th_n>>
tokensVars == <<replyVars, builderVars, threadVars>>
connVars ==
    <<now, h_pc, peer_id, peer, msg_queue, timer, timers, in_pc, out_pc, res,
      used_points, last_round, wake_at, round, wrote, quits, quit_err>>
netVars == <<controlVars, outgoingVars, connVars>>

-----------------------------------------------------------------------------
(* Bounds of the model.                                                    *)

MaxRaw == 7         \* inserts are explored while raw stays within this length
MaxHeld == 3        \* and while at most this many inserts are outstanding
MaxProbe == 2       \* longest string handed to MaskSet.is_match
MaxPattern == 3     \* longest mask handed to match_mask
MaxInput == 4       \* longest string handed to match_mask
MaxOps == 3         \* calls made on one channel
MaxQuery == 2       \* longest mode query handed to can_change
MaxReplyOps == 4    \* calls made on the reply buffers of one thread
MaxBuildOps == 4    \* builder calls made on one Buffer
MaxBindings == 3    \* listeners started
MaxSent == 3        \* strings enqueued for one peer
MaxThreadOps == 4   \* calls made on the reply buffers alive together on one thread
MaxClock == 4608    \* the clock of a connection advances while below this
MaxWritten == 2     \* strings sent to the peer of a connection

-----------------------------------------------------------------------------
(* Strings.                                                                *)

Wide == "W"
Comma == ","
Star == "*"
Question == "?"

\* All strings over alphabet A of at most n characters.
Strs(A, n) == UNION {[1..k -> A] : k \in 0..n}

\* U+0085 and U+00A0: two bytes each in UTF-8
NextLine == ""
NoBreakSpace == " "

\* char::len_utf8
len_utf8(c) == IF c \in {Wide, NextLine, NoBreakSpace} THEN 2 ELSE 1

\* str::len, the length in bytes
RECURSIVE len(_)
len(s) == IF s = <<>> THEN 0 ELSE len_utf8(Head(s)) + len(Tail(s))

\* str::is_char_boundary
is_char_boundary(s, b) == \E k \in 0..Len(s) : len(SubSeq(s, 1, k)) = b

\* &s[b..] for a byte offset b that is a character boundary
slice_from(s, b) ==
    LET k == CHOOSE k \in 0..Len(s) : len(SubSeq(s, 1, k)) = b
    IN  SubSeq(s, k + 1, Len(s))

\* str::split(','): the pieces between the commas; one empty piece for "".
RECURSIVE split(_)
split(s) ==
    IF \A i \in 1..Len(s) : s[i] # Comma
    THEN <<s>>
    ELSE LET i == CHOOSE i \in 1..Len(s) :
                      s[i] = Comma /\ \A j \in 1..(i - 1) : s[j] # Comma
         IN  <<SubSeq(s, 1, i - 1)>> \o split(SubSeq(s, i + 1, Len(s)))

-----------------------------------------------------------------------------
(* The glob matcher, src/util.rs match_mask.                               *)

Bool(b) == IF b THEN "true" ELSE "false"

\* match_chunk: chunk against the start of s; [rest, ok].
RECURSIVE match_chunk(_, _)
match_chunk(chunk, s) ==
    IF chunk = <<>> THEN [rest |-> s, ok |-> TRUE]
    ELSE IF s = <<>> THEN [rest |-> <<>>, ok |-> FALSE]
    ELSE IF Head(chunk) # Question /\ Head(chunk) # Head(s)
         THEN [rest |-> <<>>, ok |-> FALSE]
    ELSE match_chunk(Tail(chunk), Tail(s))

\* str::trim_start_matches('*')
RECURSIVE trim_stars(_)
trim_stars(mask) ==
    IF mask # <<>> /\ Head(mask) = Star THEN trim_stars(Tail(mask)) ELSE mask

\* scan_chunk: [star, chunk, mask], mask being what is left of the pattern.
scan_chunk(mask) ==
    LET trimmed == trim_stars(mask)
        star == Len(trimmed) < Len(mask)
        stars == {i \in 1..Len(trimmed) : trimmed[i] = Star}
        i == IF stars = {} THEN Len(trimmed)
             ELSE (CHOOSE j \in stars : \A k \in stars : j <= k) - 1
    IN  [star |-> star,
         chunk |-> SubSeq(trimmed, 1, i),
         mask |-> SubSeq(trimmed, i + 1, Len(trimmed))]

\* The 'pattern loop of match_mask and, in retry, its inner loop over the
\* byte offsets i of s.  The outcome is "true", "false" or, when &s[i + 1..]
\* is cut inside a character, "panic".
RECURSIVE pattern_loop(_, _), retry(_, _, _, _)
pattern_loop(mask, s) ==
    IF mask = <<>> THEN Bool(s = <<>>)
    ELSE LET sc == scan_chunk(mask)
             mc == match_chunk(sc.chunk, s)
         IN  IF sc.star /\ sc.chunk = <<>> THEN "true"
             ELSE IF mc.ok /\ (mc.rest = <<>> \/ sc.mask # <<>>)
                  THEN pattern_loop(sc.mask, mc.rest)
             ELSE IF sc.star THEN retry(sc.chunk, sc.mask, s, 0)
             ELSE "false"

retry(chunk, mask, s, i) ==
    IF i >= len(s) THEN "false"
    ELSE IF ~is_char_boundary(s, i + 1) THEN "panic"
    ELSE LET mc == match_chunk(chunk, slice_from(s, i + 1))
         IN  IF mc.ok /\ ~(mask = <<>> /\ mc.rest # <<>>)
             THEN pattern_loop(mask, mc.rest)
             ELSE retry(chunk, mask, s, i + 1)

match_mask(mask, s) == pattern_loop(mask, s)

-----------------------------------------------------------------------------
(* MaskSet, src/util.rs.                                                   *)

\* MaskSet::new
MaskSet_new == <<>>

\* MaskSet::masks
masks(r) == split(r)

\* Iterator::any over the pieces, stopping at the first match (or panic).
RECURSIVE any_match(_, _)
any_match(pieces, s) ==
    IF pieces = <<>> THEN "false"
    ELSE LET r == match_mask(Head(pieces), s)
         IN  IF r = "false" THEN any_match(Tail(pieces), s) ELSE r

\* MaskSet::is_match
is_match(r, s) == any_match(split(r), s)

\* MaskSet::insert: [ret, raw]
insert(r, mask) ==
    IF \E i \in 1..Len(split(r)) : split(r)[i] = mask
    THEN [ret |-> FALSE, raw |-> r]
    ELSE [ret |-> TRUE,
          raw |-> (IF r # <<>> THEN r \o <<Comma>> ELSE r) \o mask]

\* The offset in raw of piece number i of split(raw).
RECURSIVE piece_start(_, _)
piece_start(pieces, i) ==
    IF i = 1 THEN 0 ELSE piece_start(pieces, i - 1) + Len(pieces[i - 1]) + 1

\* MaskSet::remove: [ret, raw].  Offsets are counted in characters; start
\* and end always fall between pieces, so the byte offsets of the code
\* select the same range.
remove(r, mask) ==
    LET pieces == split(r)
        found == {i \in 1..Len(pieces) : pieces[i] = mask}
    IN  IF found = {} THEN [ret |-> FALSE, raw |-> r]
        ELSE LET i == CHOOSE j \in found : \A k \in found : j <= k
                 start == piece_start(pieces, i)
                 end0 == start + Len(pieces[i])
                 end == IF end0 < Len(r) THEN end0 + 1 ELSE end0
             IN  [ret |-> TRUE,
                  raw |-> SubSeq(r, 1, start) \o SubSeq(r, end + 1, Len(r))]

-----------------------------------------------------------------------------
(* MemberModes and Channel, src/channel.rs.                                *)

None == <<>>
Some(x) == <<x>>

\* MemberModes::default
MemberModes_default ==
    [founder |-> FALSE, protected |-> FALSE, operator |-> FALSE,
     halfop |-> FALSE, voice |-> FALSE]

is_at_least_op(mm) == mm.operator \/ mm.founder

is_at_least_halfop(mm) == mm.halfop \/ mm.operator \/ mm.founder

has_voice(mm) ==
    mm.voice \/ mm.halfop \/ mm.operator \/ mm.protected \/ mm.founder

\* mode::ChannelChange as the code matches on it: the variant, its boolean
\* and its parameter (a string, or an Option for UserLimit).
Change(kind, value, param) == [kind |-> kind, value |-> value, param |-> param]

FlagKinds ==
    {"InviteOnly", "Moderated", "NoPrivMsgFromOutside", "Secret", "TopicRestricted"}
MaskKinds == {"ChangeBan", "ChangeException", "ChangeInvitation"}
RankKinds == {"ChangeOperator", "ChangeHalfop", "ChangeVoice"}
QueryKinds == {"GetBans", "GetExceptions", "GetInvitations"}

\* One entry of a mode query: a parsed change or a parse error.
Parsed(change) == [ok |-> TRUE, change |-> change]
ParseError == [ok |-> FALSE, change |-> Change("none", FALSE, <<>>)]

\* can_change_one with InviteOnly left to the half-operators.
can_change_one_invite_by_halfop(mm, item) ==
    IF ~item.ok THEN TRUE
    ELSE IF item.change.kind \in QueryKinds THEN TRUE
    ELSE IF item.change.kind \in
                {"Moderated", "TopicRestricted", "UserLimit", "ChangeBan",
                 "ChangeException", "ChangeInvitation", "ChangeVoice", "InviteOnly"}
         THEN mm.halfop \/ mm.operator \/ mm.founder
    ELSE mm.operator \/ mm.founder

\* MemberModes::can_change, the closure over one entry.
can_change_one(mm, item) ==
    IF ~item.ok THEN TRUE
    ELSE IF item.change.kind \in QueryKinds THEN TRUE
    ELSE IF item.change.kind \in
                {"Moderated", "TopicRestricted", "UserLimit", "ChangeBan",
                 "ChangeException", "ChangeInvitation", "ChangeVoice"}
         THEN is_at_least_halfop(mm)
    ELSE is_at_least_op(mm)

\* MemberModes::can_change
can_change(mm, query) == \A i \in 1..Len(query) : can_change_one(mm, query[i])

\* The numerics of rpl that apply_mode_change returns.
ERR_KEYSET == "467"
ERR_USERNOTINCHANNEL == "441"

\* Result<bool, &'static str>, and the panic of a failed string slice.
Ok(applied) == [tag |-> "Ok", applied |-> applied, err |-> ""]
Err(numeric) == [tag |-> "Err", applied |-> FALSE, err |-> numeric]
Panicked == [tag |-> "panic", applied |-> FALSE, err |-> ""]

\* The field of Channel or of MemberModes that a change assigns.
FieldOf(kind) ==
    CASE kind = "InviteOnly" -> "invite_only"
      [] kind = "Moderated" -> "moderated"
      [] kind = "NoPrivMsgFromOutside" -> "no_msg_from_outside"
      [] kind = "Secret" -> "secret"
      [] kind = "TopicRestricted" -> "topic_restricted"
      [] kind = "ChangeBan" -> "ban_mask"
      [] kind = "ChangeException" -> "exception_mask"
      [] kind = "ChangeInvitation" -> "invex_mask"
      [] kind = "ChangeOperator" -> "operator"
      [] kind = "ChangeHalfop" -> "halfop"
      [] kind = "ChangeVoice" -> "voice"

\* str::parse::<usize>: an optional '+' and then one or more decimal digits.
Digits == <<"0", "1", "2", "3", "4", "5", "6", "7", "8", "9">>
IsDigit(c) == \E d \in 1..10 : Digits[d] = c
DigitValue(c) == (CHOOSE d \in 1..10 : Digits[d] = c) - 1

RECURSIVE digits_value(_, _)
digits_value(s, acc) ==
    IF s = <<>> THEN acc ELSE digits_value(Tail(s), 10 * acc + DigitValue(Head(s)))

parse_usize(s) ==
    LET body == IF s # <<>> /\ Head(s) = "+" THEN Tail(s) ELSE s
    IN  IF body # <<>> /\ \A i \in 1..Len(body) : IsDigit(body[i])
        THEN Some(digits_value(body, 0))
        ELSE None

\* key[..key.len().min(keylen)]: None when the cut falls inside a character
\* (the slice panics), else the prefix of that many bytes.
truncate_key(key, keylen) ==
    LET n == IF len(key) < keylen THEN len(key) ELSE keylen
    IN  IF ~is_char_boundary(key, n) THEN None
        ELSE Some(SubSeq(key, 1, CHOOSE k \in 0..Len(key) : len(SubSeq(key, 1, k)) = n))

\* The loop over self.members of the rank changes: the first member, in the
\* iteration order of the map, whose nick is param.
RECURSIVE find_member(_, _, _)
find_member(order, nick_of, param) ==
    IF order = <<>> THEN None
    ELSE IF nick_of[Head(order)] = param THEN Some(Head(order))
    ELSE find_member(Tail(order), nick_of, param)

\* apply_mode_change, the five flag arms.
apply_flag(c, kind, value) ==
    [ret |-> Ok(c[FieldOf(kind)] # value),
     chan |-> [c EXCEPT ![FieldOf(kind)] = value]]

\* apply_key that stores the new key over a key that is already set.
apply_key_overwrites(c, value, key, keylen) ==
    IF value THEN
        IF truncate_key(key, keylen) = None THEN [ret |-> Panicked, chan |-> c]
        ELSE [ret |-> Ok(TRUE), chan |-> [c EXCEPT !.key = truncate_key(key, keylen)]]
    ELSE IF c.key # None THEN [ret |-> Ok(TRUE), chan |-> [c EXCEPT !.key = None]]
    ELSE [ret |-> Ok(FALSE), chan |-> c]

\* apply_mode_change, the Key arm.
apply_key(c, value, key, keylen) ==
    IF value THEN
        IF c.key # None THEN [ret |-> Err(ERR_KEYSET), chan |-> c]
        ELSE IF truncate_key(key, keylen) = None THEN [ret |-> Panicked, chan |-> c]
        ELSE [ret |-> Ok(TRUE), chan |-> [c EXCEPT !.key = truncate_key(key, keylen)]]
    ELSE IF c.key # None THEN [ret |-> Ok(TRUE), chan |-> [c EXCEPT !.key = None]]
    ELSE [ret |-> Ok(FALSE), chan |-> c]

\* apply_mode_change, the two UserLimit arms.
apply_user_limit(c, param) ==
    IF param # None THEN
        IF parse_usize(param[1]) # None
        THEN [ret |-> Ok(c.user_limit = None \/ c.user_limit # parse_usize(param[1])),
              chan |-> [c EXCEPT !.user_limit = parse_usize(param[1])]]
        ELSE [ret |-> Ok(FALSE), chan |-> c]
    ELSE [ret |-> Ok(c.user_limit # None), chan |-> [c EXCEPT !.user_limit = None]]

\* apply_mode_change, the ChangeBan, ChangeException and ChangeInvitation arms.
apply_mask(c, kind, value, param) ==
    LET r == IF value THEN insert(c[FieldOf(kind)], param)
             ELSE remove(c[FieldOf(kind)], param)
    IN  [ret |-> Ok(r.ret), chan |-> [c EXCEPT ![FieldOf(kind)] = r.raw]]

\* apply_rank that changes the first member iterated instead of the one found.
apply_rank_first_iterated(c, kind, value, param, nick_of, order) ==
    LET found == find_member(order, nick_of, param)
    IN  IF found = None THEN [ret |-> Err(ERR_USERNOTINCHANNEL), chan |-> c]
        ELSE [ret |-> Ok(c.members[order[1]][FieldOf(kind)] # value),
              chan |-> [c EXCEPT !.members[order[1]][FieldOf(kind)] = value]]

\* apply_mode_change, the ChangeOperator, ChangeHalfop and ChangeVoice arms.
\* order is the order in which the hash map of the members is iterated.
apply_rank(c, kind, value, param, nick_of, order) ==
    LET found == find_member(order, nick_of, param)
    IN  IF found = None THEN [ret |-> Err(ERR_USERNOTINCHANNEL), chan |-> c]
        ELSE [ret |-> Ok(c.members[found[1]][FieldOf(kind)] # value),
              chan |-> [c EXCEPT !.members[found[1]][FieldOf(kind)] = value]]

\* Channel::apply_mode_change: [ret, chan].
apply_mode_change(c, change, keylen, nick_of, order) ==
    IF change.kind \in FlagKinds THEN apply_flag(c, change.kind, change.value)
    ELSE IF change.kind = "Key" THEN apply_key(c, change.value, change.param, keylen)
    ELSE IF change.kind = "UserLimit" THEN apply_user_limit(c, change.param)
    ELSE IF change.kind \in MaskKinds
         THEN apply_mask(c, change.kind, change.value, change.param)
    ELSE IF change.kind \in RankKinds
         THEN apply_rank(c, change.kind, change.value, change.param, nick_of, order)
    ELSE [ret |-> Ok(FALSE), chan |-> c]

\* usize::max_value(), as far as the model's integers go.
usize_max == 2147483647

\* Channel::new: the changes of the mode string applied to the empty channel.
RECURSIVE apply_all(_, _)
apply_all(c, changes) ==
    IF changes = <<>> THEN c
    ELSE apply_all(apply_mode_change(c, Head(changes), usize_max, <<>>, <<>>).chan,
                   Tail(changes))

Channel_new(changes) ==
    apply_all([members |-> [id \in {} |-> MemberModes_default],
               topic |-> None,
               user_limit |-> None,
               key |-> None,
               ban_mask |-> MaskSet_new,
               exception_mask |-> MaskSet_new,
               invex_mask |-> MaskSet_new,
               invite_only |-> FALSE,
               moderated |-> FALSE,
               no_msg_from_outside |-> FALSE,
               secret |-> FALSE,
               topic_restricted |-> FALSE],
              changes)

\* HashMap::insert on the member map, a function from member ids.
map_insert(m, id, modes) ==
    [k \in (DOMAIN m) \cup {id} |-> IF k = id THEN modes ELSE m[k]]

\* add_member that gives every joiner the default modes.
add_member_always_default(c, id) ==
    [c EXCEPT !.members = map_insert(c.members, id, MemberModes_default)]

\* Channel::add_member
add_member(c, id) ==
    LET modes == IF DOMAIN c.members = {}
                 THEN [founder |-> FALSE, protected |-> FALSE, operator |-> TRUE,
                       halfop |-> FALSE, voice |-> FALSE]
                 ELSE MemberModes_default
    IN  [c EXCEPT !.members = map_insert(c.members, id, modes)]

-----------------------------------------------------------------------------
(* The values the variables of ellidri-tokens and of the network tasks     *)
(* keep in the specifications that do not use them.                        *)

NoReplyBuffer == [buf |-> <<>>, batch |-> None, has_label |-> FALSE]
NoThreadLocals == [domain |-> <<>>, nickname |-> <<>>, label |-> <<>>]
NoReplyCall == [op |-> "idle", before |-> NoReplyBuffer, out |-> "returned"]
NoBuilder == [kind |-> "none", tag_start |-> 0]
NoBuilderCall ==
    [op |-> "none", arg |-> <<>>, value |-> <<>>, before |-> <<>>, out |-> 0,
     tags |-> <<>>, start |-> 0]
NoWrite == [pc |-> "idle", msg |-> <<>>, off |-> 0]
NoSlot == [live |-> FALSE, rb |-> NoReplyBuffer, args |-> NoThreadLocals]
NoTimer == [pc |-> "none", started |-> 0, timeout |-> 0, deadline |-> 0, found |-> "none"]
NoRound == [phase |-> "none", buf |-> <<>>, dispatched |-> FALSE, wait |-> 0]

IdleReplyBuffer ==
    /\ rb = NoReplyBuffer
    /\ tl = NoThreadLocals
    /\ rb_args = NoThreadLocals
    /\ rb_call = NoReplyCall
    /\ rb_n = 0
IdleBuilder ==
    /\ b_buf = <<>>
    /\ b_live = NoBuilder
    /\ b_started = 0
    /\ b_unfinished = 0
    /\ b_n = 0
    /\ b_call = NoBuilderCall
IdleControl == listener = <<>> /\ permit = FALSE /\ ctl_pc = "idle" /\ num_bindings = 0
IdleOutgoing ==
    /\ outgoing_msgs = <<>>
    /\ senders = FALSE
    /\ og = NoWrite
    /\ socket = <<>>
    /\ enqueued = <<>>
IdleThread == bufs = <<NoSlot, NoSlot>> /\ shared_tl = NoThreadLocals /\ th_n = 0
IdleTokens == IdleReplyBuffer /\ IdleBuilder /\ IdleThread
NoChannel == [sender |-> "none", queued |-> 0]

IdleConn ==
    /\ now = 0
    /\ h_pc = "idle"
    /\ peer_id = <<>>
    /\ peer = "none"
    /\ msg_queue = NoChannel
    /\ timer = NoTimer
    /\ timers = 0
    /\ in_pc = "idle"
    /\ out_pc = "idle"
    /\ res = <<>>
    /\ used_points = 0
    /\ last_round = 0
    /\ wake_at = 0
    /\ round = NoRound
    /\ wrote = 0
    /\ quits = 0
    /\ quit_err = <<>>
IdleNet == IdleControl /\ IdleOutgoing /\ IdleConn

-----------------------------------------------------------------------------
(* Specification SpecMaskSet: one MaskSet under insert and remove calls.   *)

MaskInputs == {<<>>, <<"a">>, <<Star>>, <<"a", Comma, Star>>}
Probes == Strs({"a", "b"}, MaxProbe)

NoCall == [op |-> "new", mask |-> <<>>, ret |-> FALSE, before |-> <<>>]

\* The first occurrence of m taken out of the sequence h.
DropFirst(h, m) ==
    LET at == {i \in 1..Len(h) : h[i] = m}
    IN  IF at = {} THEN h
        ELSE LET i == CHOOSE j \in at : \A k \in at : j <= k
             IN  SubSeq(h, 1, i - 1) \o SubSeq(h, i + 1, Len(h))

IdleMatch == m_mask = <<>> /\ m_s = <<>> /\ m_out = "idle"

NoChange == Change("none", FALSE, <<>>)
NoChannelCall ==
    [op |-> "new", id |-> 0, change |-> NoChange, keylen |-> 0, nick_of |-> <<>>,
     order |-> <<>>, ret |-> Ok(FALSE), before |-> Channel_new(<<>>)]
IdleChannel == chan = Channel_new(<<>>) /\ ch_call = NoChannelCall /\ nops = 0
IdleCanChange == cc_modes = MemberModes_default /\ cc_query = <<>> /\ cc_out = "idle"

InitMaskSet ==
    /\ raw = MaskSet_new
    /\ held = <<>>
    /\ ms_call = NoCall
    /\ IdleMatch
    /\ IdleChannel
    /\ IdleCanChange
    /\ IdleTokens
    /\ IdleNet

Insert ==
    \E mask \in MaskInputs :
        LET r == insert(raw, mask)
        IN  /\ Len(r.raw) <= MaxRaw
            /\ Len(held) < MaxHeld \/ ~r.ret
            /\ raw' = r.raw
            /\ held' = IF r.ret THEN Append(held, mask) ELSE held
            /\ ms_call' = [op |-> "insert", mask |-> mask, ret |-> r.ret, before |-> raw]
            /\ UNCHANGED <<matchVars, chanVars, canChangeVars, tokensVars, netVars>>

Remove ==
    \E mask \in MaskInputs :
        LET r == remove(raw, mask)
        IN  /\ raw' = r.raw
            /\ held' = IF r.ret THEN DropFirst(held, mask) ELSE held
            /\ ms_call' = [op |-> "remove", mask |-> mask, ret |-> r.ret, before |-> raw]
            /\ UNCHANGED <<matchVars, chanVars, canChangeVars, tokensVars, netVars>>

NextMaskSet == Insert \/ Remove

SpecMaskSet == InitMaskSet /\ [][NextMaskSet]_vars

-----------------------------------------------------------------------------
(* Specification SpecMatch: match_mask applied to every mask and string of *)
(* the bounded sets.                                                       *)

PatternAlphabet == {"a", "b", Star, Question, Wide}
InputAlphabet == {"a", "b", Wide}

IdleMaskSet == raw = <<>> /\ held = <<>> /\ ms_call = NoCall

\* The table of test_mask_match: the mask, the string and the expected result.
test_mask_match ==
    {[mask |-> <<"a", "b", "c">>,
      s |-> <<"a", "b", "c">>,
      is_match |-> TRUE],
     [mask |-> <<Star>>,
      s |-> <<"a", "b", "c">>,
      is_match |-> TRUE],
     [mask |-> <<Star, "c">>,
      s |-> <<"a", "b", "c">>,
      is_match |-> TRUE],
     [mask |-> <<"a", Star>>,
      s |-> <<"a">>,
      is_match |-> TRUE],
     [mask |-> <<"a", Star>>,
      s |-> <<"a", "b", "c">>,
      is_match |-> TRUE],
     [mask |-> <<"a", Star, "/", "b">>,
      s |-> <<"a", "b", "c", "/", "b">>,
      is_match |-> TRUE],
     [mask |-> <<"a", Star, "b", Question, "c", Star, "x">>,
      s |-> <<"a", "b", "x", "b", "b", "x", "d", "b", "x", "e", "b", "x", "c", "z", "z", "x">>,
      is_match |-> TRUE],
     [mask |-> <<"a", Star, "b", Question, "c", Star, "x">>,
      s |-> <<"a", "b", "x", "b", "b", "x", "d", "b", "x", "e", "b", "x", "c", "z", "z", "y">>,
      is_match |-> FALSE],
     [mask |-> <<"a", Question, "b">>,
      s |-> <<"a", Question, Question, Question, "b">>,
      is_match |-> TRUE],
     [mask |-> <<"a", Question, Question, Question, "b">>,
      s |-> <<"a", Question, Question, Question, "b">>,
      is_match |-> FALSE],
     [mask |-> <<Star, "x">>,
      s |-> <<"x", "x", "x">>,
      is_match |-> TRUE]}

InitMatch ==
    /\ \/ /\ m_mask \in Strs(PatternAlphabet, MaxPattern)
          /\ m_s \in Strs(InputAlphabet, MaxInput)
       \/ \E row \in test_mask_match : m_mask = row.mask /\ m_s = row.s
    /\ m_out = "none"
    /\ IdleMaskSet
    /\ IdleChannel
    /\ IdleCanChange
    /\ IdleTokens
    /\ IdleNet

Match ==
    /\ m_out = "none"
    /\ m_out' = match_mask(m_mask, m_s)
    /\ UNCHANGED <<m_mask, m_s, maskSetVars, chanVars, canChangeVars, tokensVars, netVars>>

NextMatch == Match

SpecMatch == InitMatch /\ [][NextMatch]_vars

-----------------------------------------------------------------------------
(* Specification SpecChannel: one channel, created by Channel::new, under  *)
(* add_member and apply_mode_change calls.                                 *)

Ids == {1, 2}

\* The mode strings of the configuration defaults: none, and "+nt".
InitialModes ==
    {<<>>,
     <<Change("NoPrivMsgFromOutside", TRUE, <<>>), Change("TopicRestricted", TRUE, <<>>)>>}

Keys == {<<"a", "b">>, <<Wide, "b">>, <<>>}
KeyLens == {1, 2}
Limits == {<<"1">>, <<"+", "2">>, <<"x">>}
ChannelMasks == {<<>>, <<"a">>, <<"b">>}

\* nick_of: the peers' nicknames, once distinct and once shared.
NickX == <<"x">>
NickY == <<"y">>
DistinctNicks == [id \in Ids |-> IF id = 1 THEN NickX ELSE NickY]
SharedNick == [id \in Ids |-> NickX]
RankInputs ==
    {[nick_of |-> DistinctNicks, param |-> NickX],
     [nick_of |-> DistinctNicks, param |-> NickY],
     [nick_of |-> SharedNick, param |-> NickX]}

\* The orders in which a hash map of the keys S may be iterated.
Orders(S) ==
    {q \in [1..Cardinality(S) -> S] : \A i, j \in 1..Cardinality(S) : i # j => q[i] # q[j]}

InitChannel ==
    /\ \E modes \in InitialModes :
           /\ chan = Channel_new(modes)
           /\ ch_call = [NoChannelCall EXCEPT !.before = Channel_new(modes)]
    /\ nops = 0
    /\ IdleMaskSet
    /\ IdleMatch
    /\ IdleCanChange
    /\ IdleTokens
    /\ IdleNet

\* One call of apply_mode_change, recorded in ch_call.
Apply(change, keylen, nick_of, order) ==
    LET r == apply_mode_change(chan, change, keylen, nick_of, order)
    IN  /\ nops < MaxOps
        /\ nops' = nops + 1
        /\ chan' = r.chan
        /\ ch_call' = [op |-> "apply_mode_change", id |-> 0, change |-> change,
                       keylen |-> keylen, nick_of |-> nick_of, order |-> order,
                       ret |-> r.ret, before |-> chan]
        /\ UNCHANGED <<maskSetVars, matchVars, canChangeVars, tokensVars, netVars>>

AddMember ==
    \E id \in Ids :
        /\ nops < MaxOps
        /\ nops' = nops + 1
        /\ chan' = add_member(chan, id)
        /\ ch_call' = [NoChannelCall EXCEPT !.op = "add_member", !.id = id, !.before = chan]
        /\ UNCHANGED <<maskSetVars, matchVars, canChangeVars, tokensVars, netVars>>

ChangeFlag ==
    \E kind \in FlagKinds, value \in BOOLEAN :
        Apply(Change(kind, value, <<>>), usize_max, DistinctNicks, <<>>)

ChangeKey ==
    \E value \in BOOLEAN, key \in Keys, keylen \in KeyLens :
        Apply(Change("Key", value, key), keylen, DistinctNicks, <<>>)

ChangeUserLimit ==
    \E param \in {None} \cup {Some(s) : s \in Limits} :
        Apply(Change("UserLimit", FALSE, param), usize_max, DistinctNicks, <<>>)

ChangeMask ==
    \E kind \in MaskKinds, value \in BOOLEAN, mask \in ChannelMasks :
        Apply(Change(kind, value, mask), usize_max, DistinctNicks, <<>>)

ChangeRank ==
    \E kind \in RankKinds, value \in BOOLEAN, inp \in RankInputs,
       order \in Orders(DOMAIN chan.members) :
        Apply(Change(kind, value, inp.param), usize_max, inp.nick_of, order)

Query ==
    \E kind \in QueryKinds :
        Apply(Change(kind, FALSE, <<>>), usize_max, DistinctNicks, <<>>)

NextChannel ==
    AddMember \/ ChangeFlag \/ ChangeKey \/ ChangeUserLimit \/ ChangeMask
        \/ ChangeRank \/ Query

SpecChannel == InitChannel /\ [][NextChannel]_vars

-----------------------------------------------------------------------------
(* Specification SpecCanChange: MemberModes::can_change applied to every   *)
(* MemberModes and every mode query of the bounded sets.                   *)

AllMemberModes ==
    [founder : BOOLEAN, protected : BOOLEAN, operator : BOOLEAN,
     halfop : BOOLEAN, voice : BOOLEAN]

\* One entry for the parse error and one for each variant of ChannelChange;
\* can_change looks at the variant only.
QueryItems ==
    {ParseError}
        \cup {Parsed(Change(kind, TRUE, <<>>)) :
                  kind \in FlagKinds \cup MaskKinds \cup RankKinds \cup QueryKinds
                               \cup {"Key", "UserLimit"}}

InitCanChange ==
    /\ cc_modes \in AllMemberModes
    /\ cc_query \in Strs(QueryItems, MaxQuery)
    /\ cc_out = "none"
    /\ IdleMaskSet
    /\ IdleMatch
    /\ IdleChannel
    /\ IdleTokens
    /\ IdleNet

CanChange ==
    /\ cc_out = "none"
    /\ cc_out' = Bool(can_change(cc_modes, cc_query))
    /\ UNCHANGED <<cc_modes, cc_query, maskSetVars, matchVars, chanVars, tokensVars, netVars>>

NextCanChange == CanChange

SpecCanChange == InitCanChange /\ [][NextCanChange]_vars

-----------------------------------------------------------------------------
(* Properties of MaskSet, checked under SpecMaskSet.                       *)

\* No entry of the sequence q occurs twice.
NoDuplicate(q) == \A i, j \in 1..Len(q) : i # j => q[i] # q[j]

Occurs(q, m) == \E i \in 1..Len(q) : q[i] = m

\* C1: after any sequence of insert and remove calls no mask occurs twice
\* in the set, and insert of a mask that is already present returns false
\* and leaves the set unchanged.
C1_NoDuplicateMask ==
    /\ NoDuplicate(masks(raw))
    /\ (ms_call.op = "insert" /\ Occurs(masks(ms_call.before), ms_call.mask))
           => (~ms_call.ret /\ raw = ms_call.before)

\* C2: is_match(s) is true if and only if at least one mask currently in
\* the set (inserted and not since removed) matches s under match_mask; in
\* particular nothing matches in the empty set.
C2_IsMatchIffSomeMaskMatches ==
    \A s \in Probes :
        (is_match(raw, s) = "true")
            <=> (\E i \in 1..Len(held) : match_mask(held[i], s) = "true")

-----------------------------------------------------------------------------
(* Properties of match_mask, checked under SpecMatch.                      *)

\* The reference glob matcher: '*' matches any possibly empty run of
\* characters, '?' exactly one character, any other character itself, and
\* the whole of s has to be consumed.
RECURSIVE Glob(_, _)
Glob(p, s) ==
    IF p = <<>> THEN s = <<>>
    ELSE IF Head(p) = Star
         THEN Glob(Tail(p), s) \/ (s # <<>> /\ Glob(p, Tail(s)))
    ELSE /\ s # <<>>
         /\ Head(p) = Question \/ Head(p) = Head(s)
         /\ Glob(Tail(p), Tail(s))

\* C3: for every mask and every input string, match_mask returns what the
\* reference glob matcher returns.
C3_MatchMaskIsGlob ==
    m_out # "none" => m_out = Bool(Glob(m_mask, m_s))

\* The same on the strings that hold one-byte characters only.
OneByte(s) == \A i \in 1..Len(s) : len_utf8(s[i]) = 1

MatchMaskIsGlobOnOneByteStrings ==
    (m_out # "none" /\ OneByte(m_s)) => m_out = Bool(Glob(m_mask, m_s))

-----------------------------------------------------------------------------
(* Properties of Channel, checked under SpecChannel.                       *)

Applied == ch_call.op = "apply_mode_change"
Added == ch_call.op = "add_member"

OperatorOnly ==
    [founder |-> FALSE, protected |-> FALSE, operator |-> TRUE,
     halfop |-> FALSE, voice |-> FALSE]
NoRank ==
    [founder |-> FALSE, protected |-> FALSE, operator |-> FALSE,
     halfop |-> FALSE, voice |-> FALSE]

\* C4: add_member(id) never overwrites existing membership: the modes of an
\* id that is already a member are the same after the call as before.
C4_AddMemberKeepsMembership ==
    (Added /\ ch_call.id \in DOMAIN ch_call.before.members)
        => chan.members[ch_call.id] = ch_call.before.members[ch_call.id]

\* C5: add_member(id) on a channel with no members records id with only
\* operator set; on a channel that has members it records a new id with all
\* five rank bits false.
C5_AddMemberModes ==
    Added =>
        IF DOMAIN ch_call.before.members = {}
        THEN chan.members[ch_call.id] = OperatorOnly
        ELSE ch_call.id \notin DOMAIN ch_call.before.members
                 => chan.members[ch_call.id] = NoRank

C5_Witness ==
    /\ Added
    /\ ch_call.id = 2
    /\ DOMAIN ch_call.before.members = {1}
    /\ chan.members[1] = OperatorOnly
    /\ chan.members[2] = NoRank

\* C6: apply_mode_change returns Ok(true) if and only if the channel after
\* the call differs from the channel before it.
C6_AppliedIffChanged ==
    (Applied /\ ch_call.ret.tag = "Ok")
        => (ch_call.ret.applied <=> chan # ch_call.before)

\* C7: Key(true, k) on a channel whose key is set returns Err(ERR_KEYSET)
\* and leaves the key and every other field unchanged, for every k.
C7_KeyAlreadySet ==
    (Applied /\ ch_call.change.kind = "Key" /\ ch_call.change.value
         /\ ch_call.before.key # None)
        => (ch_call.ret = Err(ERR_KEYSET) /\ chan = ch_call.before)

C7_Witness ==
    /\ Applied
    /\ ch_call.change.kind = "Key"
    /\ ch_call.change.value
    /\ ch_call.before.key = Some(ch_call.change.param)
    /\ ch_call.before.invite_only
    /\ ch_call.ret = Err(ERR_KEYSET)

\* The rank bit that each rank change is about.
RankBit(kind) ==
    CASE kind = "ChangeOperator" -> "operator"
      [] kind = "ChangeHalfop" -> "halfop"
      [] kind = "ChangeVoice" -> "voice"

\* C8: a rank change (v, nick) returns Err(ERR_USERNOTINCHANNEL) and changes
\* nothing when no member's nick is nick; otherwise, the members' nicks
\* being distinct, it sets that rank bit of that member to v and leaves
\* every other bit, member and field unchanged.
C8_RankChange ==
    (Applied /\ ch_call.change.kind \in RankKinds) =>
        LET b == ch_call.before
            nick_of == ch_call.nick_of
            holders == {id \in DOMAIN b.members : nick_of[id] = ch_call.change.param}
            distinct == \A i, j \in DOMAIN b.members : i # j => nick_of[i] # nick_of[j]
        IN  /\ holders = {} => (ch_call.ret = Err(ERR_USERNOTINCHANNEL) /\ chan = b)
            /\ (holders # {} /\ distinct) =>
                   \E id \in holders :
                       /\ ch_call.ret.tag = "Ok"
                       /\ chan = [b EXCEPT !.members[id][RankBit(ch_call.change.kind)] =
                                               ch_call.change.value]

C8_Witness ==
    /\ Applied
    /\ ch_call.change = Change("ChangeVoice", TRUE, NickY)
    /\ ch_call.nick_of = DistinctNicks
    /\ DOMAIN ch_call.before.members = {1, 2}
    /\ ch_call.order = <<1, 2>>
    /\ ~ch_call.before.members[2].voice
    /\ chan.members[2].voice
    /\ chan.members[1] = OperatorOnly

\* C10: a mode change followed by its inverse returns the channel to its
\* original state; here for a non-empty mask that a mode change inserts and
\* the inverse change removes, the state including what the mask sets
\* enumerate and match.
C10_InsertThenRemoveRestores ==
    \A kind \in MaskKinds, mask \in ChannelMasks \ {<<>>} :
        LET first == apply_mode_change(chan, Change(kind, TRUE, mask), usize_max,
                                       DistinctNicks, <<>>)
            second == apply_mode_change(first.chan, Change(kind, FALSE, mask), usize_max,
                                        DistinctNicks, <<>>)
        IN  first.ret = Ok(TRUE) => second.chan = chan

-----------------------------------------------------------------------------
(* Properties of MemberModes::can_change, checked under SpecCanChange.     *)

HalfopChanges ==
    {"Moderated", "TopicRestricted", "UserLimit", "ChangeBan", "ChangeException",
     "ChangeInvitation", "ChangeVoice"}
OpChanges ==
    {"InviteOnly", "NoPrivMsgFromOutside", "Secret", "Key", "ChangeOperator",
     "ChangeHalfop"}

Permitted(mm, item) ==
    \/ ~item.ok
    \/ item.change.kind \in QueryKinds
    \/ item.change.kind \in HalfopChanges /\ is_at_least_halfop(mm)
    \/ item.change.kind \in OpChanges /\ is_at_least_op(mm)

VoiceOnly ==
    [founder |-> FALSE, protected |-> FALSE, operator |-> FALSE,
     halfop |-> FALSE, voice |-> TRUE]

\* C9: can_change(query) is true if and only if every parsed change of the
\* query is permitted to the member (query forms always, the half-operator
\* changes to half-operators and above, the operator changes to operators
\* and above), parse errors never causing a refusal; a member holding only
\* voice is refused for +i.
C9_CanChange ==
    cc_out # "none" =>
        /\ cc_out = Bool(\A i \in 1..Len(cc_query) : Permitted(cc_modes, cc_query[i]))
        /\ (cc_modes = VoiceOnly
                /\ \E i \in 1..Len(cc_query) :
                       cc_query[i] = Parsed(Change("InviteOnly", TRUE, <<>>)))
               => cc_out = "false"

C9_Witness ==
    /\ cc_out = "false"
    /\ cc_modes = VoiceOnly
    /\ cc_query = <<ParseError, Parsed(Change("InviteOnly", TRUE, <<>>))>>

-----------------------------------------------------------------------------
(* The message builders of ellidri-tokens/src/buffers.rs.  A builder       *)
(* borrows the String of its Buffer; here each builder call takes the      *)
(* string written so far and gives the string after the call.              *)

CR == "\r"
LF == "\n"
Space == " "
Tab == "\t"
Semicolon == ";"
Backslash == "\\"
At == "@"
Colon == ":"
Plus == "+"
Minus == "-"
Equals == "="

\* The commands and words the reply buffer writes by itself.
BATCH == <<"B", "A", "T", "C", "H">>
ACK == <<"A", "C", "K">>
LabeledResponse ==
    <<"l", "a", "b", "e", "l", "e", "d", "-", "r", "e", "s", "p", "o", "n", "s", "e">>
LabelKey == <<"l", "a", "b", "e", "l">>
BatchKey == <<"b", "a", "t", "c", "h">>

VerticalTab == ""
FormFeed == "\f"

\* char::is_whitespace, on the characters up to U+00FF: U+0009 to U+000D,
\* U+0020, U+0085 and U+00A0
Whitespace == {Tab, LF, VerticalTab, FormFeed, CR, Space, NextLine, NoBreakSpace}

RECURSIVE trim_start(_)
trim_start(s) ==
    IF s # <<>> /\ Head(s) \in Whitespace THEN trim_start(Tail(s)) ELSE s

RECURSIVE trim_end(_)
trim_end(s) ==
    IF s # <<>> /\ s[Len(s)] \in Whitespace
    THEN trim_end(SubSeq(s, 1, Len(s) - 1))
    ELSE s

\* str::trim
trim(s) == trim_end(trim_start(s))

\* str::starts_with
starts_with(s, p) == Len(s) >= Len(p) /\ SubSeq(s, 1, Len(p)) = p

\* str::split(c): the pieces between the occurrences of c; one empty piece for "".
RECURSIVE split_on(_, _)
split_on(s, c) ==
    IF \A i \in 1..Len(s) : s[i] # c
    THEN <<s>>
    ELSE LET i == CHOOSE i \in 1..Len(s) : s[i] = c /\ \A j \in 1..(i - 1) : s[j] # c
         IN  <<SubSeq(s, 1, i - 1)>> \o split_on(SubSeq(s, i + 1, Len(s)), c)

\* Display for usize: the decimal digits of n.
RECURSIVE to_string(_)
to_string(n) ==
    IF n < 10 THEN <<Digits[n + 1]>>
    ELSE to_string(n \div 10) \o <<Digits[(n % 10) + 1]>>

\* MessageBuffer::with_prefix
with_prefix(buf, prefix, command) ==
    (IF prefix # <<>> THEN buf \o <<Colon>> \o prefix \o <<Space>> ELSE buf) \o command

\* Mutant of MessageBuffer::param: the parameter is appended as it is.
param_untrimmed(buf, p) == buf \o <<Space>> \o p

\* MessageBuffer::param
param(buf, p) ==
    IF trim(p) = <<>> THEN buf ELSE buf \o <<Space>> \o trim(p)

\* MessageBuffer::fmt_param, p being what Display writes for the argument
fmt_param(buf, p) == buf \o <<Space>> \o p

\* MessageBuffer::raw_param: the string the caller goes on pushing to
raw_param(buf) == Append(buf, Space)

\* Drop for MessageBuffer
MessageBuffer_drop(buf) == buf \o <<CR, LF>>

\* MessageBuffer::trailing_param; it takes the builder by value, which is
\* dropped when the call returns.
trailing_param(buf, p) == MessageBuffer_drop(buf \o <<Space, Colon>> \o p)

\* Mutant of write_escaped: a backslash is copied.
escape_char_copies_backslash(c) ==
    IF c = Semicolon THEN <<Backslash, Colon>>
    ELSE IF c = Space THEN <<Backslash, "s">>
    ELSE IF c = CR THEN <<Backslash, "r">>
    ELSE IF c = LF THEN <<Backslash, "n">>
    ELSE <<c>>

\* What write_escaped pushes for one character of the value.
escape_char(c) ==
    IF c = Semicolon THEN <<Backslash, Colon>>
    ELSE IF c = Space THEN <<Backslash, "s">>
    ELSE IF c = CR THEN <<Backslash, "r">>
    ELSE IF c = LF THEN <<Backslash, "n">>
    ELSE IF c = Backslash THEN <<Backslash, Backslash>>
    ELSE <<c>>

RECURSIVE write_escaped(_, _)
write_escaped(buf, value) ==
    IF value = <<>> THEN buf
    ELSE write_escaped(buf \o escape_char(Head(value)), Tail(value))

\* TagBuffer::new; a TagBuffer is the borrowed string and tag_start.
TagBuffer_new(buf) == [buf |-> Append(buf, At), tag_start |-> len(buf)]

\* TagBuffer::is_empty
TagBuffer_is_empty(t) == len(t.buf) = t.tag_start + 1

\* TagBuffer::tag, value being an Option of what Display writes
tag(t, key, value) ==
    LET sep == IF ~TagBuffer_is_empty(t) THEN Append(t.buf, Semicolon) ELSE t.buf
    IN  [t EXCEPT !.buf = IF value # None
                          THEN write_escaped(Append(sep \o key, Equals), value[1])
                          ELSE sep \o key]

\* TagBuffer::raw_tag
raw_tag(t, s) ==
    [t EXCEPT !.buf = (IF ~TagBuffer_is_empty(t) THEN Append(t.buf, Semicolon)
                       ELSE t.buf) \o s]

\* TagBuffer::save_tag_len: the value written to out
save_tag_len(t) ==
    IF t.buf # <<>> /\ t.buf[Len(t.buf)] = At THEN 0 ELSE len(t.buf) + 1 - t.tag_start

\* Mutant of TagBuffer::prefixed_command: an empty tag section is kept.
prefixed_command_keeps_at(t, prefix, cmd) ==
    with_prefix(Append(t.buf, Space), prefix, cmd)

\* TagBuffer::prefixed_command: the string of the MessageBuffer it returns
prefixed_command(t, prefix, cmd) ==
    with_prefix(IF TagBuffer_is_empty(t)
                THEN SubSeq(t.buf, 1, Len(t.buf) - 1)
                ELSE Append(t.buf, Space),
                prefix, cmd)

\* Buffer::message
Buffer_message(buf, prefix, command) == with_prefix(buf, prefix, command)

\* The fold of Buffer::tagged_message over the pieces of client_tags.
RECURSIVE fold_client_tags(_, _)
fold_client_tags(t, pieces) ==
    IF pieces = <<>> THEN t
    ELSE fold_client_tags(
             IF starts_with(Head(pieces), <<Plus>>)
                /\ ~starts_with(Head(pieces), <<Plus, Equals>>)
             THEN raw_tag(t, Head(pieces))
             ELSE t,
             Tail(pieces))

\* Buffer::tagged_message
Buffer_tagged_message(buf, client_tags) ==
    fold_client_tags(TagBuffer_new(buf), split_on(client_tags, Semicolon))

-----------------------------------------------------------------------------
(* ReplyBuffer.  r is the ReplyBuffer (buf, batch, has_label) and t the    *)
(* thread-locals (domain, nickname, label).  An operator that returns a    *)
(* MessageBuffer gives the ReplyBuffer whose buf holds the message not yet *)
(* terminated; dropped(r) is the drop of that MessageBuffer.               *)

\* ReplyBuffer::set_nick
set_nick(t, nickname) == [t EXCEPT !.nickname = nickname]

\* ReplyBuffer::set_domain
set_domain(t, domain) == [t EXCEPT !.domain = domain]

\* ReplyBuffer::set_label
set_label(t, label) == IF label = <<>> THEN t ELSE [t EXCEPT !.label = label]

\* ReplyBuffer::new: the buffer made and the thread-locals after it
ReplyBuffer_new(t, domain, nickname, label) ==
    [rb |-> [buf |-> <<>>, batch |-> None, has_label |-> label # <<>>],
     tl |-> set_label(set_domain(set_nick(t, nickname), domain), label)]

\* ReplyBuffer::is_empty
ReplyBuffer_is_empty(r) == r.buf = <<>>

\* Mutant of ReplyBuffer::tagged_message: has_label is not cleared.
tagged_message_keeps_label(r, t, tags) ==
    LET msg0 == Buffer_tagged_message(r.buf, tags)
        msg1 == IF r.has_label THEN tag(msg0, LabelKey, Some(t.label)) ELSE msg0
        msg2 == IF r.batch # None
                THEN tag(msg1, BatchKey, Some(to_string(r.batch[1])))
                ELSE msg1
    IN  [rb |-> r, msg |-> msg2]

\* ReplyBuffer::tagged_message: the ReplyBuffer after the call and the
\* TagBuffer returned
ReplyBuffer_tagged_message(r, t, tags) ==
    LET msg0 == Buffer_tagged_message(r.buf, tags)
        msg1 == IF r.has_label THEN tag(msg0, LabelKey, Some(t.label)) ELSE msg0
        msg2 == IF r.batch # None
                THEN tag(msg1, BatchKey, Some(to_string(r.batch[1])))
                ELSE msg1
    IN  [rb |-> [r EXCEPT !.has_label = FALSE], msg |-> msg2]

\* ReplyBuffer::message
ReplyBuffer_message(r, t, prefix, command) ==
    LET m == ReplyBuffer_tagged_message(r, t, <<>>)
    IN  [m.rb EXCEPT !.buf = prefixed_command(m.msg, prefix, command)]

\* ReplyBuffer::prefixed_message
prefixed_message(r, t, command) == ReplyBuffer_message(r, t, t.domain, command)

\* ReplyBuffer::reply
reply(r, t, command) ==
    [prefixed_message(r, t, command) EXCEPT !.buf = param(@, t.nickname)]

\* The MessageBuffer that borrows r.buf goes out of scope.
dropped(r) == [r EXCEPT !.buf = MessageBuffer_drop(@)]

\* ReplyBuffer::new_batch: the ReplyBuffer after the call and the id returned
new_batch(r) ==
    LET next == IF r.batch = None THEN 0 ELSE r.batch[1] + 1
    IN  [rb |-> [r EXCEPT !.batch = Some(next)], next |-> next]

\* Mutant of ReplyBuffer::lr_batch_begin: has_label is not cleared.
lr_batch_begin_keeps_label(r, t) ==
    IF ~r.has_label THEN r
    ELSE LET nb == new_batch(r)
             tags == tag(Buffer_tagged_message(nb.rb.buf, <<>>), LabelKey, Some(t.label))
             cmd == prefixed_command(tags, t.domain, BATCH)
         IN  [nb.rb EXCEPT !.buf =
                  MessageBuffer_drop(
                      param(fmt_param(cmd, <<Plus>> \o to_string(nb.next)),
                            LabeledResponse))]

\* ReplyBuffer::lr_batch_begin
lr_batch_begin(r, t) ==
    IF ~r.has_label THEN r
    ELSE LET nb == new_batch([r EXCEPT !.has_label = FALSE])
             tags == tag(Buffer_tagged_message(nb.rb.buf, <<>>), LabelKey, Some(t.label))
             cmd == prefixed_command(tags, t.domain, BATCH)
         IN  [nb.rb EXCEPT !.buf =
                  MessageBuffer_drop(
                      param(fmt_param(cmd, <<Plus>> \o to_string(nb.next)),
                            LabeledResponse))]

\* ReplyBuffer::batch_begin
batch_begin(r, t, name) ==
    LET nb == new_batch(r)
    IN  [prefixed_message(nb.rb, t, BATCH) EXCEPT !.buf =
             MessageBuffer_drop(
                 param(fmt_param(@, <<Plus>> \o to_string(nb.next)), name))]

\* Mutant of ReplyBuffer::batch_end: the batch stays open.
batch_end_keeps_batch(r, t) ==
    IF r.batch = None THEN r
    ELSE [prefixed_message(r, t, BATCH) EXCEPT !.buf =
              MessageBuffer_drop(fmt_param(@, <<Minus>> \o to_string(r.batch[1])))]

\* ReplyBuffer::batch_end
batch_end(r, t) ==
    IF r.batch = None THEN r
    ELSE LET prev == r.batch[1]
             r1 == [r EXCEPT !.batch = IF prev = 0 THEN None ELSE Some(prev - 1)]
         IN  [prefixed_message(r1, t, BATCH) EXCEPT !.buf =
                  MessageBuffer_drop(fmt_param(@, <<Minus>> \o to_string(prev)))]

\* Mutant of ReplyBuffer::lr_end: no ACK for an empty buffer.
lr_end_without_ack(r, t) ==
    IF ~r.has_label /\ r.batch = None THEN [rb |-> r, out |-> "returned"]
    ELSE LET r1 == IF r.batch # None THEN batch_end(r, t) ELSE r
         IN  IF r1.batch # None THEN [rb |-> r1, out |-> "panic"]
             ELSE [rb |-> [r1 EXCEPT !.has_label = FALSE], out |-> "returned"]

\* Mutant of ReplyBuffer::lr_end: a batch left open is not a panic.
lr_end_ignores_nested(r, t) ==
    IF ~r.has_label /\ r.batch = None THEN [rb |-> r, out |-> "returned"]
    ELSE LET r1 == IF r.batch # None THEN batch_end(r, t) ELSE r
             r2 == IF ReplyBuffer_is_empty(r1)
                   THEN dropped(prefixed_message(r1, t, ACK))
                   ELSE r1
         IN  [rb |-> [r2 EXCEPT !.has_label = FALSE], out |-> "returned"]

\* ReplyBuffer::lr_end: the ReplyBuffer after the call, and whether the call
\* returned or panicked
lr_end(r, t) ==
    IF ~r.has_label /\ r.batch = None THEN [rb |-> r, out |-> "returned"]
    ELSE LET r1 == IF r.batch # None THEN batch_end(r, t) ELSE r
         IN  IF r1.batch # None THEN [rb |-> r1, out |-> "panic"]
             ELSE LET r2 == IF ReplyBuffer_is_empty(r1)
                            THEN dropped(prefixed_message(r1, t, ACK))
                            ELSE r1
                  IN  [rb |-> [r2 EXCEPT !.has_label = FALSE], out |-> "returned"]

-----------------------------------------------------------------------------
(* Specification SpecReplyBuffer: the reply buffers one thread makes, one  *)
(* after the other, and the calls made on the current one.  A panic ends   *)
(* the run of the thread.                                                  *)

coreVars == <<maskSetVars, matchVars, chanVars, canChangeVars>>
IdleCore == IdleMaskSet /\ IdleMatch /\ IdleChannel /\ IdleCanChange

Domains == {<<"d">>, <<"e">>}
Nicknames == {<<"n">>}
\* The nicknames of a thread on which several buffers are alive together.
ThreadNicknames == {<<"n">>, <<"m">>}
Labels == {<<>>, <<"x">>, <<"y", Semicolon>>}
Welcome == <<"0", "0", "1">>
Notice == <<"N", "O", "T", "I", "C", "E">>
BatchNames == {<<"b">>}
\* The client tags and the prefix handed to tagged_message(..).prefixed_command(..).
TaggedInputs ==
    {[tags |-> <<>>, prefix |-> <<>>],
     [tags |-> <<Plus, "c", Semicolon, "t">>, prefix |-> <<"p">>]}

CtorArgs(d, n, l) == [domain |-> d, nickname |-> n, label |-> l]

InitReplyBuffer ==
    /\ \E d \in Domains, n \in Nicknames, l \in Labels :
           /\ rb = ReplyBuffer_new(NoThreadLocals, d, n, l).rb
           /\ tl = ReplyBuffer_new(NoThreadLocals, d, n, l).tl
           /\ rb_args = CtorArgs(d, n, l)
           /\ rb_call = [op |-> "new", before |-> NoReplyBuffer, out |-> "returned"]
    /\ rb_n = 0
    /\ IdleBuilder
    /\ IdleThread
    /\ IdleNet
    /\ IdleCore

CanCall == rb_call.out # "panic" /\ rb_n < MaxReplyOps

\* The current buffer is finished and the thread makes the next one.
New ==
    \E d \in Domains, n \in Nicknames, l \in Labels :
        /\ CanCall
        /\ rb' = ReplyBuffer_new(tl, d, n, l).rb
        /\ tl' = ReplyBuffer_new(tl, d, n, l).tl
        /\ rb_args' = CtorArgs(d, n, l)
        /\ rb_call' = [op |-> "new", before |-> rb, out |-> "returned"]
        /\ rb_n' = rb_n + 1
        /\ UNCHANGED <<builderVars, threadVars, netVars, coreVars>>

\* ReplyBuffer::set_nick(n), called while rb is alive; it is no call on rb.
\* The thread of this specification knows the nicknames of Nicknames only.
SetNick ==
    \E n \in Nicknames :
        /\ rb_call.out # "panic"
        /\ tl' = set_nick(tl, n)
        /\ UNCHANGED <<rb, rb_args, rb_call, rb_n, builderVars, threadVars, netVars,
                       coreVars>>

\* A call op on rb that leaves the buffer r and ends with out.
Called(op, r, out) ==
    /\ CanCall
    /\ rb' = r
    /\ rb_call' = [op |-> op, before |-> rb, out |-> out]
    /\ rb_n' = rb_n + 1
    /\ UNCHANGED <<tl, rb_args, builderVars, threadVars, netVars, coreVars>>

\* rb.reply(r); the statement ends and the MessageBuffer is dropped.
Reply == Called("reply", dropped(reply(rb, tl, Welcome)), "returned")

\* rb.tagged_message(tags).prefixed_command(prefix, cmd); and the drop.
TaggedMessage ==
    \E inp \in TaggedInputs :
        LET m == ReplyBuffer_tagged_message(rb, tl, inp.tags)
        IN  Called("tagged_message",
                   dropped([m.rb EXCEPT !.buf = prefixed_command(m.msg, inp.prefix, Notice)]),
                   "returned")

LrBatchBegin == Called("lr_batch_begin", lr_batch_begin(rb, tl), "returned")

LrEnd == Called("lr_end", lr_end(rb, tl).rb, lr_end(rb, tl).out)

BatchBegin ==
    \E name \in BatchNames :
        Called("batch_begin", batch_begin(rb, tl, name), "returned")

BatchEnd == Called("batch_end", batch_end(rb, tl), "returned")

NextReplyBuffer ==
    New \/ SetNick \/ Reply \/ TaggedMessage \/ LrBatchBegin \/ LrEnd \/ BatchBegin
        \/ BatchEnd

SpecReplyBuffer == InitReplyBuffer /\ [][NextReplyBuffer]_vars

-----------------------------------------------------------------------------
(* Reading a buffer back: its lines, and the tags, the command and the     *)
(* parameters of a line.                                                   *)

\* The pieces of buf that end with CR LF, without the CR LF; what follows
\* the last CR LF, if anything, is the last piece.
RECURSIVE crlf_lines(_)
crlf_lines(buf) ==
    IF buf = <<>> THEN <<>>
    ELSE LET ends == {i \in 1..(Len(buf) - 1) : buf[i] = CR /\ buf[i + 1] = LF}
         IN  IF ends = {} THEN <<buf>>
             ELSE LET i == CHOOSE i \in ends : \A j \in ends : i <= j
                  IN  <<SubSeq(buf, 1, i - 1)>> \o crlf_lines(SubSeq(buf, i + 2, Len(buf)))

\* The words of a line, the tag section (if any) being the first.
words(line) == split_on(line, Space)

has_tags(line) == line # <<>> /\ Head(line) = At

\* The tags of a line, each as it is written (key or key=value).
tags_of(line) ==
    IF has_tags(line) THEN split_on(Tail(words(line)[1]), Semicolon) ELSE <<>>

\* The written value of the tag key of a line; None when the line has no such tag.
tag_value(line, key) ==
    LET hits == {i \in 1..Len(tags_of(line)) :
                     starts_with(tags_of(line)[i], Append(key, Equals))}
    IN  IF hits = {} THEN None
        ELSE LET i == CHOOSE i \in hits : \A j \in hits : i <= j
             IN  Some(SubSeq(tags_of(line)[i], Len(key) + 2, Len(tags_of(line)[i])))

\* The words after the tags and the prefix: the command and its parameters.
command_words(line) ==
    LET w == IF has_tags(line) THEN Tail(words(line)) ELSE words(line)
    IN  IF w # <<>> /\ starts_with(w[1], <<Colon>>) THEN Tail(w) ELSE w

is_batch_line(line) ==
    Len(command_words(line)) >= 2 /\ command_words(line)[1] = BATCH

opens_batch(line) == is_batch_line(line) /\ starts_with(command_words(line)[2], <<Plus>>)
closes_batch(line) == is_batch_line(line) /\ starts_with(command_words(line)[2], <<Minus>>)

\* The id of a BATCH line, as written.
batch_id(line) == Tail(command_words(line)[2])

opens_labeled_response(line) ==
    opens_batch(line) /\ Len(command_words(line)) = 3
        /\ command_words(line)[3] = LabeledResponse

\* The ids of the batches open after the lines ls, innermost first, open
\* being the ids open before them.
RECURSIVE open_after(_, _)
open_after(ls, open) ==
    IF ls = <<>> THEN open
    ELSE IF opens_batch(Head(ls)) THEN open_after(Tail(ls), <<batch_id(Head(ls))>> \o open)
    ELSE IF closes_batch(Head(ls)) /\ open # <<>> THEN open_after(Tail(ls), Tail(open))
    ELSE open_after(Tail(ls), open)

Lines == crlf_lines(rb.buf)
LinesBefore == crlf_lines(rb_call.before.buf)
\* The lines the last call wrote.
Written == SubSeq(Lines, Len(LinesBefore) + 1, Len(Lines))

\* The written form of a tag value.
Escaped(value) == write_escaped(<<>>, value)

-----------------------------------------------------------------------------
(* Properties of ReplyBuffer, checked under SpecReplyBuffer.               *)

\* C11: in a ReplyBuffer created with a non-empty label the first message
\* written carries the tag label=<value> and no later message carries a
\* label tag; a ReplyBuffer created with an empty label never writes a
\* label tag.
C11_LabelOnFirstMessageOnly ==
    /\ (rb_args.label # <<>> /\ Lines # <<>>) =>
           /\ tag_value(Lines[1], LabelKey) = Some(Escaped(rb_args.label))
           /\ \A i \in 2..Len(Lines) : tag_value(Lines[i], LabelKey) = None
    /\ rb_args.label = <<>> =>
           \A i \in 1..Len(Lines) : tag_value(Lines[i], LabelKey) = None

\* A second buffer of the thread, made with a label that needs escaping
\* after a buffer with another label, has written a tagged message and a
\* reply.
C11_Witness ==
    /\ rb_args.label = <<"y", Semicolon>>
    /\ tl.label = <<"y", Semicolon>>
    /\ rb_n = 3
    /\ Len(Lines) = 2
    /\ tag_value(Lines[1], LabelKey) = Some(<<"y", Backslash, Colon>>)
    /\ tags_of(Lines[1]) = <<<<Plus, "c">>, <<"l", "a", "b", "e", "l", Equals, "y", Backslash, Colon>>>>
    /\ rb_call.op = "reply"

\* C12: a message built while batches are open carries the tag batch=<id of
\* the innermost open batch>, a message built while none is open carries no
\* batch tag; and lr_end after lr_batch_begin and replies gives
\* BATCH +0 labeled-response, the replies tagged batch=0, then BATCH -0.
C12_BatchTagIsInnermostOpen ==
    /\ \A i \in 1..Len(Lines) :
           ~is_batch_line(Lines[i]) =>
               LET open == open_after(SubSeq(Lines, 1, i - 1), <<>>)
               IN  tag_value(Lines[i], BatchKey) =
                       (IF open = <<>> THEN None ELSE Some(Head(open)))
    /\ ( /\ rb_call.op = "lr_end"
         /\ LinesBefore # <<>>
         /\ opens_labeled_response(LinesBefore[1])
         /\ \A i \in 2..Len(LinesBefore) : ~is_batch_line(LinesBefore[i]) )
       => /\ rb_call.out = "returned"
          /\ command_words(LinesBefore[1]) = <<BATCH, <<Plus, "0">>, LabeledResponse>>
          /\ \A i \in 2..Len(LinesBefore) :
                 tag_value(LinesBefore[i], BatchKey) = Some(<<"0">>)
          /\ rb.buf = rb_call.before.buf
                 \o <<Colon>> \o rb_args.domain \o <<Space>> \o BATCH
                 \o <<Space, Minus, "0", CR, LF>>

\* lr_batch_begin, two messages, lr_end: the labeled response of several replies.
C12_Witness ==
    /\ rb_call.op = "lr_end"
    /\ Len(Lines) = 4
    /\ opens_labeled_response(Lines[1])
    /\ tag_value(Lines[2], BatchKey) = Some(<<"0">>)
    /\ tag_value(Lines[3], BatchKey) = Some(<<"0">>)
    /\ command_words(Lines[4]) = <<BATCH, <<Minus, "0">>>>

\* C13: every batch opened in one ReplyBuffer gets an id greater than the
\* id of every batch opened earlier in it, also after earlier batches were
\* closed.
C13_BatchIdsIncrease ==
    \A i, j \in 1..Len(Lines) :
        (i < j /\ opens_batch(Lines[i]) /\ opens_batch(Lines[j]))
            => digits_value(batch_id(Lines[i]), 0) < digits_value(batch_id(Lines[j]), 0)

\* C14: batch_end with no batch open panics, and every BATCH -id line is
\* written for the innermost open batch.
C14_MismatchedCloseFailsLoudly ==
    /\ (rb_call.op = "batch_end" /\ rb_call.before.batch = None)
           => rb_call.out = "panic"
    /\ \A i \in 1..Len(Lines) :
           closes_batch(Lines[i]) =>
               LET open == open_after(SubSeq(Lines, 1, i - 1), <<>>)
               IN  open # <<>> /\ batch_id(Lines[i]) = Head(open)

\* Every BATCH -id line closes the innermost open batch (the part of C14
\* that the code keeps).
ClosesInnermost ==
    \A i \in 1..Len(Lines) :
        closes_batch(Lines[i]) =>
            LET open == open_after(SubSeq(Lines, 1, i - 1), <<>>)
            IN  open # <<>> /\ batch_id(Lines[i]) = Head(open)

\* C15: lr_end on a buffer created with a label in which nothing has been
\* produced writes exactly the ACK message, prefixed with the domain and
\* tagged with the label; lr_end with no pending label and no open batch
\* writes nothing.
C15_LrEndAcknowledges ==
    /\ (rb_call.op = "lr_end" /\ rb_args.label # <<>> /\ rb_call.before.buf = <<>>)
           => /\ rb_call.out = "returned"
              /\ rb.buf = <<At>> \o LabelKey \o <<Equals>> \o Escaped(rb_args.label)
                     \o <<Space, Colon>> \o rb_args.domain \o <<Space>> \o ACK
                     \o <<CR, LF>>
    /\ (rb_call.op = "lr_end" /\ ~rb_call.before.has_label /\ rb_call.before.batch = None)
           => /\ rb_call.out = "returned"
              /\ rb = rb_call.before

\* lr_end has written the ACK of a labeled buffer.
C15_Witness ==
    /\ rb_call.op = "lr_end"
    /\ rb_call.before.buf = <<>>
    /\ rb_call.before.has_label
    /\ rb_args = CtorArgs(<<"e">>, <<"n">>, <<"x">>)
    /\ Len(Lines) = 1
    /\ command_words(Lines[1]) = <<ACK>>

\* C16: lr_end with exactly one batch open writes its BATCH -<id> line and
\* leaves no batch open and no pending label; lr_end with two or more
\* batches open panics.
C16_LrEndClosesOneBatch ==
    /\ (rb_call.op = "lr_end" /\ rb_call.before.batch = Some(0))
           => /\ rb_call.out = "returned"
              /\ Len(Written) = 1
              /\ command_words(Written[1]) = <<BATCH, <<Minus, "0">>>>
              /\ open_after(LinesBefore, <<>>) = <<<<"0">>>>
              /\ rb.batch = None
              /\ ~rb.has_label
    /\ (rb_call.op = "lr_end" /\ rb_call.before.batch # None
            /\ rb_call.before.batch # Some(0))
           => rb_call.out = "panic"

\* lr_end has panicked with two batches open.
C16_Witness ==
    /\ rb_call.op = "lr_end"
    /\ rb_call.before.batch = Some(1)
    /\ rb_call.out = "panic"
    /\ Len(open_after(LinesBefore, <<>>)) = 2

\* C17: after lr_end, a BATCH of type labeled-response is in the output
\* only with two or more messages between its opening and its closing line.
C17_NoBatchForFewerThanTwoReplies ==
    (rb_call.op = "lr_end" /\ rb_call.out = "returned") =>
        \A i \in 1..Len(Lines) :
            opens_labeled_response(Lines[i]) =>
                \A j \in (i + 1)..Len(Lines) :
                    ( /\ closes_batch(Lines[j])
                      /\ batch_id(Lines[j]) = batch_id(Lines[i])
                      /\ \A k \in (i + 1)..(j - 1) :
                             ~(closes_batch(Lines[k])
                                 /\ batch_id(Lines[k]) = batch_id(Lines[i])) )
                        => j - i - 1 >= 2

-----------------------------------------------------------------------------
(* Specification SpecBuilder: one Buffer and the builders that borrow it.  *)
(* At most one builder is alive at a time (it holds the &mut of the        *)
(* buffer): a TagBuffer, which prefixed_command turns into a               *)
(* MessageBuffer, or a MessageBuffer.  A builder may be dropped after any  *)
(* call.  The parameters hold no CR and no LF, as the callers must ensure. *)

ClientTags == {<<>>, <<Plus, "a">>, <<"s", Semicolon, Plus, Equals, "b", Semicolon, Plus, "c">>}
Prefixes == {<<>>, <<"p">>}
TagKeys == {<<"k">>}
TagValues ==
    {None, Some(<<"v", Space>>), Some(<<Semicolon, Backslash, "s", CR, LF, At>>)}
Params == {<<>>, <<Tab, Space>>, <<Space, "a", Space>>, <<FormFeed, "a", NextLine>>, <<VerticalTab, NoBreakSpace>>}
Trailings == {<<>>, <<"a", Space, "b">>}

InitBuilder ==
    /\ b_buf = <<>>
    /\ b_live = NoBuilder
    /\ b_started = 0
    /\ b_unfinished = 0
    /\ b_n = 0
    /\ b_call = NoBuilderCall
    /\ IdleReplyBuffer
    /\ IdleThread
    /\ IdleNet
    /\ IdleCore

OtherThanBuilder == <<replyVars, threadVars, netVars, coreVars>>

\* The last call: its name, its argument, and the buffer before it.
Call(op, arg) == [b_call EXCEPT !.op = op, !.arg = arg, !.value = None, !.before = b_buf]

\* The entries of client_tags that the server forwards.
Forwarded(client_tags) ==
    SelectSeq(split_on(client_tags, Semicolon),
              LAMBDA s : /\ s # <<>>
                         /\ s[1] = Plus
                         /\ ~(Len(s) >= 2 /\ s[2] = Equals))

\* buf.tagged_message(client_tags)
StartTagged ==
    \E client_tags \in ClientTags :
        /\ b_live.kind = "none"
        /\ b_n < MaxBuildOps
        /\ b_buf' = Buffer_tagged_message(b_buf, client_tags).buf
        /\ b_live' = [kind |-> "tag",
                      tag_start |-> Buffer_tagged_message(b_buf, client_tags).tag_start]
        /\ b_started' = b_started + 1
        /\ b_n' = b_n + 1
        /\ b_call' = [Call("tagged_message", client_tags) EXCEPT
                          !.tags = Forwarded(client_tags), !.start = Len(b_buf)]
        /\ UNCHANGED <<b_unfinished, OtherThanBuilder>>

\* buf.message(prefix, command)
StartMessage ==
    \E prefix \in Prefixes :
        /\ b_live.kind = "none"
        /\ b_n < MaxBuildOps
        /\ b_buf' = Buffer_message(b_buf, prefix, Notice)
        /\ b_live' = [kind |-> "message", tag_start |-> 0]
        /\ b_started' = b_started + 1
        /\ b_n' = b_n + 1
        /\ b_call' = [Call("message", prefix) EXCEPT !.tags = <<>>, !.start = Len(b_buf)]
        /\ UNCHANGED <<b_unfinished, OtherThanBuilder>>

\* TagBuffer::tag
AddTag ==
    \E key \in TagKeys, value \in TagValues :
        /\ b_live.kind = "tag"
        /\ b_n < MaxBuildOps
        /\ b_buf' = tag([buf |-> b_buf, tag_start |-> b_live.tag_start], key, value).buf
        /\ b_n' = b_n + 1
        /\ b_call' = [Call("tag", key) EXCEPT
                          !.value = value,
                          !.tags = Append(@, IF value = None THEN key
                                             ELSE Append(key, Equals) \o Escaped(value[1]))]
        /\ UNCHANGED <<b_live, b_started, b_unfinished, OtherThanBuilder>>

\* TagBuffer::save_tag_len
SaveTagLen ==
    /\ b_live.kind = "tag"
    /\ b_n < MaxBuildOps
    /\ b_n' = b_n + 1
    /\ b_call' = [Call("save_tag_len", <<>>) EXCEPT
                      !.out = save_tag_len([buf |-> b_buf, tag_start |-> b_live.tag_start])]
    /\ UNCHANGED <<b_buf, b_live, b_started, b_unfinished, OtherThanBuilder>>

\* TagBuffer::prefixed_command
PrefixedCommand ==
    \E prefix \in Prefixes :
        /\ b_live.kind = "tag"
        /\ b_n < MaxBuildOps
        /\ b_buf' = prefixed_command([buf |-> b_buf, tag_start |-> b_live.tag_start],
                                     prefix, Notice)
        /\ b_live' = [kind |-> "message", tag_start |-> 0]
        /\ b_n' = b_n + 1
        /\ b_call' = Call("prefixed_command", prefix)
        /\ UNCHANGED <<b_started, b_unfinished, OtherThanBuilder>>

\* MessageBuffer::param
Param ==
    \E p \in Params :
        /\ b_live.kind = "message"
        /\ b_n < MaxBuildOps
        /\ b_buf' = param(b_buf, p)
        /\ b_n' = b_n + 1
        /\ b_call' = Call("param", p)
        /\ UNCHANGED <<b_live, b_started, b_unfinished, OtherThanBuilder>>

\* MessageBuffer::fmt_param
FmtParam ==
    \E p \in Params :
        /\ b_live.kind = "message"
        /\ b_n < MaxBuildOps
        /\ b_buf' = fmt_param(b_buf, p)
        /\ b_n' = b_n + 1
        /\ b_call' = Call("fmt_param", p)
        /\ UNCHANGED <<b_live, b_started, b_unfinished, OtherThanBuilder>>

\* MessageBuffer::trailing_param, which consumes the builder
TrailingParam ==
    \E p \in Trailings :
        /\ b_live.kind = "message"
        /\ b_n < MaxBuildOps
        /\ b_buf' = trailing_param(b_buf, p)
        /\ b_live' = NoBuilder
        /\ b_n' = b_n + 1
        /\ b_call' = Call("trailing_param", p)
        /\ UNCHANGED <<b_started, b_unfinished, OtherThanBuilder>>

\* MessageBuffer::fmt_trailing_param, p being what Display writes for the
\* argument; it consumes the builder, which is dropped when the call returns.
FmtTrailingParam ==
    \E p \in Trailings :
        /\ b_live.kind = "message"
        /\ b_n < MaxBuildOps
        /\ b_buf' = MessageBuffer_drop(b_buf \o <<Space, Colon>> \o p)
        /\ b_live' = NoBuilder
        /\ b_n' = b_n + 1
        /\ b_call' = Call("fmt_trailing_param", p)
        /\ UNCHANGED <<b_started, b_unfinished, OtherThanBuilder>>

\* MessageBuffer::raw_param, and the text p the caller pushes to the string
\* it returns
RawParam ==
    \E p \in Params :
        /\ b_live.kind = "message"
        /\ b_n < MaxBuildOps
        /\ b_buf' = raw_param(b_buf) \o p
        /\ b_n' = b_n + 1
        /\ b_call' = Call("raw_param", p)
        /\ UNCHANGED <<b_live, b_started, b_unfinished, OtherThanBuilder>>

\* MessageBuffer::raw_trailing_param, and the text p the caller pushes to
\* the string it returns
RawTrailingParam ==
    \E p \in Trailings :
        /\ b_live.kind = "message"
        /\ b_n < MaxBuildOps
        /\ b_buf' = b_buf \o <<Space, Colon>> \o p
        /\ b_n' = b_n + 1
        /\ b_call' = Call("raw_trailing_param", p)
        /\ UNCHANGED <<b_live, b_started, b_unfinished, OtherThanBuilder>>

\* The MessageBuffer goes out of scope: Drop for MessageBuffer.
DropMessage ==
    /\ b_live.kind = "message"
    /\ b_buf' = MessageBuffer_drop(b_buf)
    /\ b_live' = NoBuilder
    /\ b_call' = Call("drop", <<>>)
    /\ UNCHANGED <<b_started, b_unfinished, b_n, OtherThanBuilder>>

\* The TagBuffer goes out of scope before prefixed_command: TagBuffer has
\* no Drop, the string stays as it is.
DropTag ==
    /\ b_live.kind = "tag"
    /\ b_live' = NoBuilder
    /\ b_unfinished' = b_unfinished + 1
    /\ b_call' = Call("drop", <<>>)
    /\ UNCHANGED <<b_buf, b_started, b_n, OtherThanBuilder>>

\* Buffer::clear; it takes &mut self, so no builder is alive.  The buffer
\* holds no message afterwards, started or unfinished.
Clear ==
    /\ b_live.kind = "none"
    /\ b_n < MaxBuildOps
    /\ b_buf' = <<>>
    /\ b_started' = 0
    /\ b_unfinished' = 0
    /\ b_n' = b_n + 1
    /\ b_call' = [Call("clear", <<>>) EXCEPT !.tags = <<>>, !.start = 0]
    /\ UNCHANGED <<b_live, OtherThanBuilder>>

NextBuilder ==
    \/ StartTagged \/ StartMessage \/ AddTag \/ SaveTagLen \/ PrefixedCommand
    \/ Param \/ FmtParam \/ RawParam \/ TrailingParam \/ FmtTrailingParam
    \/ RawTrailingParam \/ DropMessage \/ DropTag \/ Clear

SpecBuilder == InitBuilder /\ [][NextBuilder]_vars

-----------------------------------------------------------------------------
(* Properties of the builders, checked under SpecBuilder.                  *)

\* The positions of buf at which a CR LF starts.
CrlfAt(buf) == {i \in 1..(Len(buf) - 1) : buf[i] = CR /\ buf[i + 1] = LF}

\* buf is empty or a concatenation of n messages, each ended by the only
\* CR LF it has.
Terminated(buf, n) ==
    /\ Cardinality(CrlfAt(buf)) = n
    /\ buf # <<>> => Len(buf) - 1 \in CrlfAt(buf)
    /\ \A i \in 1..Len(buf) :
           /\ buf[i] = CR => i \in CrlfAt(buf)
           /\ buf[i] = LF => i - 1 \in CrlfAt(buf)

\* C18: once every builder has gone out of scope, each message started has
\* exactly one CR LF, at its end: the buffer is empty or a concatenation of
\* CR LF terminated messages.
C18_EveryMessageTerminated ==
    b_live.kind = "none" => Terminated(b_buf, b_started)

\* What the code keeps of C18: the messages that reached a MessageBuffer
\* are terminated, and a message left as a TagBuffer never is.
MessageBuffersTerminated ==
    b_live.kind = "none" =>
        /\ Cardinality(CrlfAt(b_buf)) = b_started - b_unfinished
        /\ \A i \in 1..Len(b_buf) :
               /\ b_buf[i] = CR => i \in CrlfAt(b_buf)
               /\ b_buf[i] = LF => i - 1 \in CrlfAt(b_buf)
        /\ (b_unfinished = 0 /\ b_buf # <<>>) => Len(b_buf) - 1 \in CrlfAt(b_buf)

-----------------------------------------------------------------------------
(* Specification SpecControl: the listener tasks start() spawns, one for   *)
(* each binding, and the control task, src/lib.rs and src/net.rs.  The     *)
(* failures Notify holds at most one permit: notify() wakes the task that  *)
(* waits in notified(), or else sets the permit, which a later notified()  *)
(* takes.                                                                  *)

BindingKinds == {"plain", "tls"}

\* start(): the listeners of cfg.bindings are spawned, then control runs.
InitControl ==
    /\ \E n \in 0..MaxBindings :
           /\ listener \in [1..n -> [kind : BindingKinds, pc : {"bind"}]]
           /\ num_bindings = n
    /\ permit = FALSE
    /\ ctl_pc = "loop"
    /\ IdleOutgoing
    /\ IdleConn
    /\ IdleTokens
    /\ IdleCore

OtherThanControl == <<outgoingVars, connVars, tokensVars, coreVars>>

\* Notify::notify: the permit and the position of control after the call
notify(p, pc) ==
    IF pc = "waiting"
    THEN [permit |-> p, ctl_pc |-> "woken"]
    ELSE [permit |-> TRUE, ctl_pc |-> pc]

\* The first poll of Notify::notified: the permit is taken, or the task waits.
notified(p) ==
    IF p THEN [permit |-> FALSE, ready |-> TRUE] ELSE [permit |-> p, ready |-> FALSE]

\* A listener of the kind binds its address and goes on to accept connections.
Bound(i, kind) ==
    /\ listener[i] = [kind |-> kind, pc |-> "bind"]
    /\ listener' = [listener EXCEPT ![i].pc = "accept"]
    /\ UNCHANGED <<permit, ctl_pc, num_bindings, OtherThanControl>>

\* A listener of the kind fails to bind: failures.notify(), and it returns.
BindFailed(i, kind) ==
    /\ listener[i] = [kind |-> kind, pc |-> "bind"]
    /\ listener' = [listener EXCEPT ![i].pc = "returned"]
    /\ permit' = notify(permit, ctl_pc).permit
    /\ ctl_pc' = notify(permit, ctl_pc).ctl_pc
    /\ UNCHANGED <<num_bindings, OtherThanControl>>

\* net::listen
ListenBound == \E i \in DOMAIN listener : Bound(i, "plain")
ListenFailed == \E i \in DOMAIN listener : BindFailed(i, "plain")

\* net::listen_tls
ListenTlsBound == \E i \in DOMAIN listener : Bound(i, "tls")
ListenTlsFailed == \E i \in DOMAIN listener : BindFailed(i, "tls")

\* control: no listener left, it returns.
ControlReturns ==
    /\ ctl_pc = "loop"
    /\ num_bindings = 0
    /\ ctl_pc' = "returned"
    /\ UNCHANGED <<listener, permit, num_bindings, OtherThanControl>>

\* control: failures.notified().await, then num_bindings -= 1 when a permit
\* was there.
ControlAwaits ==
    /\ ctl_pc = "loop"
    /\ num_bindings # 0
    /\ permit' = notified(permit).permit
    /\ ctl_pc' = IF notified(permit).ready THEN "loop" ELSE "waiting"
    /\ num_bindings' = IF notified(permit).ready THEN num_bindings - 1 ELSE num_bindings
    /\ UNCHANGED <<listener, OtherThanControl>>

\* control: woken by a notify, num_bindings -= 1.
ControlWoken ==
    /\ ctl_pc = "woken"
    /\ ctl_pc' = "loop"
    /\ num_bindings' = num_bindings - 1
    /\ UNCHANGED <<listener, permit, OtherThanControl>>

NextControl ==
    \/ ListenBound \/ ListenFailed \/ ListenTlsBound \/ ListenTlsFailed
    \/ ControlReturns \/ ControlAwaits \/ ControlWoken

SpecControl == InitControl /\ [][NextControl]_vars

-----------------------------------------------------------------------------
(* Properties of the control loop, checked under SpecControl.              *)

AllSignalled == \A i \in DOMAIN listener : listener[i].pc = "returned"

\* C19: once all n listeners have signalled the failures notifier the
\* control loop terminates, for every interleaving: it is never left
\* waiting for a notification that no listener is left to send; with
\* n = 0 it returns at once.
C19_ControlTerminates ==
    /\ AllSignalled => ctl_pc # "waiting"
    /\ listener = <<>> => (num_bindings = 0 /\ ctl_pc \in {"loop", "returned"})

\* What the code keeps of C19: control returns only when every listener
\* has signalled, and with one listener it returns once that one has.
ControlReturnsOnlyWhenAllSignalled ==
    /\ ctl_pc = "returned" => AllSignalled
    /\ (Len(listener) = 1 /\ AllSignalled) => ctl_pc # "waiting"

-----------------------------------------------------------------------------
(* Specification SpecOutgoing: the outgoing half of net::handle.  The      *)
(* state enqueues strings on the unbounded channel of the peer; the        *)
(* outgoing task receives them one at a time and writes each with          *)
(* write_all, which calls write until the whole string is written; a write *)
(* takes any number of the bytes left, or fails.                           *)

Outbound == {<<"a", "b", "c">>, <<"d", "e">>, <<>>}

\* handle: the channel is made, its sending half given to the state.
InitOutgoing ==
    /\ outgoing_msgs = <<>>
    /\ senders = TRUE
    /\ og = [pc |-> "recv", msg |-> <<>>, off |-> 0]
    /\ socket = <<>>
    /\ enqueued = <<>>
    /\ IdleControl
    /\ IdleConn
    /\ IdleTokens
    /\ IdleCore

OtherThanOutgoing == <<controlVars, connVars, tokensVars, coreVars>>

\* The state sends a string to the peer: msg_queue.send(msg).
Send ==
    \E msg \in Outbound :
        /\ senders
        /\ og.pc \in {"recv", "write"}
        /\ Len(enqueued) < MaxSent
        /\ outgoing_msgs' = Append(outgoing_msgs, msg)
        /\ enqueued' = Append(enqueued, msg)
        /\ UNCHANGED <<senders, og, socket, OtherThanOutgoing>>

\* The state forgets the peer: the sending half is dropped.
DropSender ==
    /\ senders
    /\ senders' = FALSE
    /\ UNCHANGED <<outgoing_msgs, og, socket, enqueued, OtherThanOutgoing>>

\* Mutant of recv: the string enqueued last is received.
recv_newest(q) == [msg |-> q[Len(q)], rest |-> SubSeq(q, 1, Len(q) - 1)]

\* UnboundedReceiver::recv on a channel that holds strings: the oldest one.
recv(q) == [msg |-> Head(q), rest |-> Tail(q)]

\* write_all after a write of k bytes: it goes on until the string is written.
write_all(o, k) ==
    [pc |-> IF o.off + k = Len(o.msg) THEN "recv" ELSE "write",
     msg |-> o.msg, off |-> o.off + k]

\* outgoing_msgs.recv().await gives Some(msg); write_all starts, and is done
\* at once for an empty string.
Recv ==
    /\ og.pc = "recv"
    /\ outgoing_msgs # <<>>
    /\ outgoing_msgs' = recv(outgoing_msgs).rest
    /\ og' = write_all([pc |-> "write", msg |-> recv(outgoing_msgs).msg, off |-> 0], 0)
    /\ UNCHANGED <<senders, socket, enqueued, OtherThanOutgoing>>

\* outgoing_msgs.recv().await gives None: the loop ends with Ok(()).
RecvNone ==
    /\ og.pc = "recv"
    /\ outgoing_msgs = <<>>
    /\ ~senders
    /\ og' = [og EXCEPT !.pc = "ok"]
    /\ UNCHANGED <<outgoing_msgs, senders, socket, enqueued, OtherThanOutgoing>>

\* One write of write_all takes k of the bytes left.
Write ==
    \E k \in 1..(Len(og.msg) - og.off) :
        /\ og.pc = "write"
        /\ socket' = socket \o SubSeq(og.msg, og.off + 1, og.off + k)
        /\ og' = write_all(og, k)
        /\ UNCHANGED <<outgoing_msgs, senders, enqueued, OtherThanOutgoing>>

\* A write fails: write_all(..).await? returns the error.
WriteFails ==
    /\ og.pc = "write"
    /\ og' = [og EXCEPT !.pc = "err"]
    /\ UNCHANGED <<outgoing_msgs, senders, socket, enqueued, OtherThanOutgoing>>

NextOutgoing == Send \/ DropSender \/ Recv \/ RecvNone \/ Write \/ WriteFails

SpecOutgoing == InitOutgoing /\ [][NextOutgoing]_vars

-----------------------------------------------------------------------------
(* Properties of the outgoing task, checked under SpecOutgoing.            *)

RECURSIVE Concat(_)
Concat(q) == IF q = <<>> THEN <<>> ELSE Head(q) \o Concat(Tail(q))

\* C20: the strings enqueued for a peer are written to its socket in
\* enqueue order, each one completely before the next begins: the bytes
\* written are the strings received so far, whole and in order, then the
\* bytes written so far of the one being written; and everything enqueued
\* has been written when the loop ends with Ok.
C20_WrittenInEnqueueOrder ==
    LET received == Len(enqueued) - Len(outgoing_msgs)
        whole == IF og.pc \in {"write", "err"} THEN received - 1 ELSE received
    IN  /\ whole >= 0
        /\ og.pc \in {"write", "err"} => og.off <= Len(enqueued[received])
        /\ socket = Concat(SubSeq(enqueued, 1, whole))
                        \o (IF og.pc \in {"write", "err"}
                            THEN SubSeq(enqueued[received], 1, og.off)
                            ELSE <<>>)
        /\ og.pc = "ok" => socket = Concat(enqueued)

\* Two different strings were enqueued; the first has been written whole
\* and the second is partly written.
C20_Witness ==
    /\ enqueued = <<<<"a", "b", "c">>, <<"d", "e">>>>
    /\ outgoing_msgs = <<>>
    /\ og = [pc |-> "write", msg |-> <<"d", "e">>, off |-> 1]
    /\ socket = <<"a", "b", "c", "d">>

-----------------------------------------------------------------------------
(* Further properties of MaskSet, checked under SpecMaskSet.               *)

\* C26: after any sequence of insert and remove calls, masks() enumerates
\* exactly the masks inserted and not since removed, each once and in the
\* order of their insertion: no other entry, no empty mask, and nothing for
\* an empty set.
C26_MasksEnumeratesInserted == masks(raw) = held

\* C27: remove(m) of a mask that is not in the set returns false and leaves
\* the set unchanged, for every m and every set, the empty set included;
\* remove(m) of a mask that is in the set returns true and afterwards
\* masks() does not yield m.  The masks in the set are those inserted and
\* not since removed.
C27_RemoveOfAbsentMask ==
    [][ms_call'.op = "remove" =>
         IF Occurs(held, ms_call'.mask)
         THEN ms_call'.ret /\ ~Occurs(masks(raw'), ms_call'.mask)
         ELSE ~ms_call'.ret /\ raw' = raw]_vars

\* What the code keeps of C27: remove(m) of a mask that is not empty and
\* holds no comma.
RemoveOfPlainMask ==
    [][(ms_call'.op = "remove" /\ ms_call'.mask # <<>> /\ ~Occurs(ms_call'.mask, Comma)
        /\ \A i \in 1..Len(held) : ~Occurs(held[i], Comma)) =>
         IF Occurs(held, ms_call'.mask)
         THEN ms_call'.ret /\ ~Occurs(masks(raw'), ms_call'.mask)
         ELSE ~ms_call'.ret /\ raw' = raw]_vars

-----------------------------------------------------------------------------
(* Further operations of Channel, src/channel.rs, and their properties,    *)
(* checked under SpecChannel.                                              *)

\* The first n code points of k, all of k when it has no more than n.
FirstCodePoints(k, n) == SubSeq(k, 1, IF Len(k) < n THEN Len(k) ELSE n)

\* C28: Key(true, k) on a channel without a key stores exactly the first
\* keylen code points of k, k itself when it is no longer than keylen, and
\* returns Ok(true), for every k, multi-byte characters included.
C28_KeyTruncatedToCodePoints ==
    ( /\ ch_call.op = "apply_mode_change"
      /\ ch_call.change.kind = "Key"
      /\ ch_call.change.value
      /\ ch_call.before.key = None )
    => /\ ch_call.ret = Ok(TRUE)
       /\ chan.key = Some(FirstCodePoints(ch_call.change.param, ch_call.keylen))

\* What the code keeps of C28: a key of one-byte characters is cut to its
\* first keylen characters.
KeyOfOneByteCharactersTruncated ==
    ( /\ ch_call.op = "apply_mode_change"
      /\ ch_call.change.kind = "Key"
      /\ ch_call.change.value
      /\ ch_call.before.key = None
      /\ \A i \in 1..Len(ch_call.change.param) : ch_call.change.param[i] # Wide )
    => /\ ch_call.ret = Ok(TRUE)
       /\ chan.key = Some(FirstCodePoints(ch_call.change.param, ch_call.keylen))

\* Mutant of can_talk: a peer outside the channel is held back by moderated only.
can_talk_from_outside(c, id) ==
    IF id \in DOMAIN c.members
    THEN ~c.moderated \/ has_voice(c.members[id])
    ELSE ~c.moderated

\* Channel::can_talk
can_talk(c, id) ==
    IF id \in DOMAIN c.members
    THEN ~c.moderated \/ has_voice(c.members[id])
    ELSE ~c.moderated /\ ~c.no_msg_from_outside

\* C29: in every channel state reachable by add_member and
\* apply_mode_change, can_talk(id) is (not moderated or has_voice) for a
\* member and (not moderated and not no_msg_from_outside) for a peer that
\* is not a member, has_voice being voice or halfop or operator or
\* protected or founder.
C29_CanTalk ==
    \A id \in Ids :
        can_talk(chan, id) =
            IF id \in DOMAIN chan.members
            THEN \/ ~chan.moderated
                 \/ chan.members[id].voice
                 \/ chan.members[id].halfop
                 \/ chan.members[id].operator
                 \/ chan.members[id].protected
                 \/ chan.members[id].founder
            ELSE ~chan.moderated /\ ~chan.no_msg_from_outside

\* An open channel closed to the outside: its operator, who lost the rank,
\* and the peer that is not a member are told apart by no_msg_from_outside
\* alone.
C29_Witness ==
    /\ DOMAIN chan.members = {1}
    /\ ~chan.moderated
    /\ chan.no_msg_from_outside
    /\ ~has_voice(chan.members[1])
    /\ can_talk(chan, 1)
    /\ ~can_talk(chan, 2)

\* The letters Channel::modes pushes after '+'.
mode_letters(c) ==
    (IF c.invite_only THEN <<"i">> ELSE <<>>)
        \o (IF c.moderated THEN <<"m">> ELSE <<>>)
        \o (IF c.no_msg_from_outside THEN <<"n">> ELSE <<>>)
        \o (IF c.secret THEN <<"s">> ELSE <<>>)
        \o (IF c.topic_restricted THEN <<"t">> ELSE <<>>)
        \o (IF c.user_limit # None THEN <<"l">> ELSE <<>>)
        \o (IF c.key # None THEN <<"k">> ELSE <<>>)

\* Channel::modes: the string of the MessageBuffer out after the call, the
\* drop of the MessageBuffer included
modes(c, out, full_info) ==
    LET shown == raw_param(out) \o <<Plus>> \o mode_letters(c)
        limit == IF full_info /\ c.user_limit # None
                 THEN fmt_param(shown, to_string(c.user_limit[1]))
                 ELSE shown
    IN  MessageBuffer_drop(IF full_info /\ c.key # None
                           THEN param(limit, c.key[1])
                           ELSE limit)

\* The message RPL_CHANNELMODEIS is started with, before Channel::modes.
ModeReply == <<Colon, "d", Space, "3", "2", "4", Space, "n", Space, "#", "c">>

\* C30: Channel::modes writes one parameter made of '+' and the letters of
\* exactly the enabled settings in the order i, m, n, s, t, l, k; with
\* full_info it is followed by the user limit and then the key, one
\* parameter for each of the letters l and k shown, and without full_info
\* by nothing.
C30_ModesParameters ==
    \A full_info \in BOOLEAN :
        LET written == command_words(crlf_lines(modes(chan, ModeReply, full_info))[1])
            letters == SelectSeq(<<"i", "m", "n", "s", "t", "l", "k">>,
                           LAMBDA x :
                               \/ x = "i" /\ chan.invite_only
                               \/ x = "m" /\ chan.moderated
                               \/ x = "n" /\ chan.no_msg_from_outside
                               \/ x = "s" /\ chan.secret
                               \/ x = "t" /\ chan.topic_restricted
                               \/ x = "l" /\ chan.user_limit # None
                               \/ x = "k" /\ chan.key # None)
            values == (IF chan.user_limit # None
                       THEN <<to_string(chan.user_limit[1])>> ELSE <<>>)
                      \o (IF chan.key # None THEN <<chan.key[1]>> ELSE <<>>)
        IN  /\ Len(crlf_lines(modes(chan, ModeReply, full_info))) = 1
            /\ SubSeq(written, 1, 4) = <<<<"3", "2", "4">>, <<"n">>, <<"#", "c">>, <<Plus>> \o letters>>
            /\ SubSeq(written, 5, Len(written)) = (IF full_info THEN values ELSE <<>>)

\* What the code keeps of C30: the claim for the channels whose key, if
\* set, is not empty.
ModesParametersOfNonEmptyKey ==
    chan.key # Some(<<>>) => C30_ModesParameters

-----------------------------------------------------------------------------
(* Specification SpecSharedThread: two ReplyBuffers of one thread that are *)
(* alive together, as when a handler keeps its buffer over an await and    *)
(* the thread runs another handler meanwhile.  DOMAIN, NICKNAME and LABEL  *)
(* are thread-locals, one of each for all the buffers of the thread.       *)

Slots == {1, 2}

InitSharedThread ==
    /\ bufs = <<NoSlot, NoSlot>>
    /\ shared_tl = NoThreadLocals
    /\ th_n = 0
    /\ IdleReplyBuffer
    /\ IdleBuilder
    /\ IdleNet
    /\ IdleCore

OtherThanThread == <<replyVars, builderVars, netVars, coreVars>>

\* let rb = ReplyBuffer::new(d, n, l) in the handler that owns slot i
NewBuffer ==
    \E i \in Slots, d \in Domains, n \in ThreadNicknames, l \in Labels :
        /\ th_n < MaxThreadOps
        /\ ~bufs[i].live
        /\ bufs' = [bufs EXCEPT ![i] = [live |-> TRUE,
                                        rb |-> ReplyBuffer_new(shared_tl, d, n, l).rb,
                                        args |-> CtorArgs(d, n, l)]]
        /\ shared_tl' = ReplyBuffer_new(shared_tl, d, n, l).tl
        /\ th_n' = th_n + 1
        /\ UNCHANGED OtherThanThread

\* rb.reply(r); in the handler that owns slot i, and the drop of the MessageBuffer
ReplyOn ==
    \E i \in Slots :
        /\ th_n < MaxThreadOps
        /\ bufs[i].live
        /\ bufs' = [bufs EXCEPT ![i].rb = dropped(reply(@, shared_tl, Welcome))]
        /\ th_n' = th_n + 1
        /\ UNCHANGED <<shared_tl, OtherThanThread>>

\* ReplyBuffer::set_nick(n), called on the thread without making a buffer
SetNickShared ==
    \E n \in ThreadNicknames :
        /\ shared_tl' = set_nick(shared_tl, n)
        /\ UNCHANGED <<bufs, th_n, OtherThanThread>>

\* The handler that owns slot i ends and its ReplyBuffer goes out of scope.
EndHandler ==
    \E i \in Slots :
        /\ bufs[i].live
        /\ bufs' = [bufs EXCEPT ![i] = NoSlot]
        /\ UNCHANGED <<shared_tl, th_n, OtherThanThread>>

NextSharedThread == NewBuffer \/ SetNickShared \/ ReplyOn \/ EndHandler

SpecSharedThread == InitSharedThread /\ [][NextSharedThread]_vars

\* The prefix of a line: its first word after the tags, without the colon.
prefix_of(line) ==
    LET w == IF has_tags(line) THEN Tail(words(line)) ELSE words(line)
    IN  IF w # <<>> /\ starts_with(w[1], <<Colon>>) THEN Some(Tail(w[1])) ELSE None

\* C25: every message a ReplyBuffer writes carries the domain, the nickname
\* and the label its own constructor was given, also when another
\* ReplyBuffer was constructed on the same thread before it was finished:
\* the prefix is its domain, the first parameter of a reply its nickname,
\* and the label tag of its first message its label.
C25_OwnDomainNickLabel ==
    \A i \in Slots :
        bufs[i].live =>
            \A k \in 1..Len(crlf_lines(bufs[i].rb.buf)) :
                LET line == crlf_lines(bufs[i].rb.buf)[k]
                IN  /\ prefix_of(line) = Some(bufs[i].args.domain)
                    /\ command_words(line) = <<Welcome, bufs[i].args.nickname>>
                    /\ tag_value(line, LabelKey) =
                           IF k = 1 /\ bufs[i].args.label # <<>>
                           THEN Some(Escaped(bufs[i].args.label))
                           ELSE None

-----------------------------------------------------------------------------
(* One connection, src/net.rs: handle_tcp or handle_tls, handle, the       *)
(* incoming future with rate_limit! and handle_buffer, the outgoing        *)
(* future, login_timeout, and the end of handle in peer_quit.  The state   *)
(* behind peer_joined, handle_message, remove_if_unregistered and          *)
(* peer_quit is not part of the sources at hand; it is modelled as the     *)
(* specification describes it.                                             *)

rate == 1024
burst == 16
\* std::u32::MAX is 4294967295; the largest integer the checker can hold
\* stands for it, every time of the model being far below both.
u32_MAX == 2147483647

\* An io::Error: its kind and its message.
Error(kind, msg) == [kind |-> kind, msg |-> msg]
\* lines::CONNECTION_RESET
CONNECTION_RESET == "CONNECTION_RESET"
ReadError == Error("BrokenPipe", "read")
WriteError == Error("BrokenPipe", "write")

\* The results of handle_buffer and of State::handle_message; dispatched
\* tells whether State::handle_message was called for the line.
OkPoints(points) ==
    [tag |-> "Ok", points |-> points, err |-> Error("", ""), dispatched |-> FALSE]
ErrWith(err) == [tag |-> "Err", points |-> 0, err |-> err, dispatched |-> FALSE]

\* What read_message leaves in buf: nothing, a blank line, a line.
Bufs == {<<>>, <<CR, LF>>, <<"N", CR, LF>>}
\* What State::handle_message returns for a message: its cost, or Err(()).
Outcomes == {OkPoints(1), OkPoints(24), ErrWith(<<>>)}
\* The values of the login_timeout setting.
LoginTimeouts == {1024, 3072}
\* The steps of the clock.
Ticks == {1536}

\* Message::parse: None for a line without a command
Message_parse(buf) == IF trim(buf) = <<>> THEN None ELSE Some(trim(buf))

\* Mutant of handle_buffer: an empty buffer is an ignored line.
handle_buffer_ignores_empty(buf, outcome) ==
    IF buf # <<>> /\ Message_parse(buf) # None
    THEN [(IF outcome.tag = "Ok" THEN outcome ELSE ErrWith(Error("Other", "")))
             EXCEPT !.dispatched = TRUE]
    ELSE OkPoints(1)

\* handle_buffer, outcome being what State::handle_message returns if called
handle_buffer(buf, outcome) ==
    IF buf = <<>> THEN ErrWith(Error("UnexpectedEof", CONNECTION_RESET))
    ELSE IF Message_parse(buf) # None
    THEN [(IF outcome.tag = "Ok" THEN outcome ELSE ErrWith(Error("Other", "")))
             EXCEPT !.dispatched = TRUE]
    ELSE OkPoints(1)

\* u32::saturating_sub
saturating_sub(a, b) == IF a < b THEN 0 ELSE a - b

\* rate_limit!: elapsed.as_millis() brought to u32
millis_u32(millis) == IF u32_MAX < millis THEN u32_MAX ELSE millis

\* rate_limit!: used_points after the elapsed time is credited
credited(used, elapsed) == saturating_sub(used, (millis_u32(elapsed) \div rate) * 4)

\* Mutant of wait_millis: the wait is not scaled by rate.
wait_millis_unscaled(used) == (used - burst) \div 4

\* rate_limit!: wait_millis
wait_millis(used) == ((used - burst) \div 4) * rate

\* Mutant of delay_for: the delay ends at once.
delay_for_nothing(from, millis) == from

\* time::delay_for: the time from which the delay is over
delay_for(from, millis) == from + millis

InitConnection ==
    /\ now = 0
    /\ h_pc = "accepted"
    /\ peer_id = None
    /\ peer = "none"
    /\ msg_queue = NoChannel
    /\ timer = NoTimer
    /\ timers = 0
    /\ in_pc = "idle"
    /\ out_pc = "idle"
    /\ res = None
    /\ used_points = 0
    /\ last_round = 0
    /\ wake_at = 0
    /\ round = NoRound
    /\ wrote = 0
    /\ quits = 0
    /\ quit_err = None
    /\ IdleControl
    /\ IdleOutgoing
    /\ IdleTokens
    /\ IdleCore

OtherThanConnection == <<controlVars, outgoingVars, tokensVars, coreVars>>
rateVars == <<used_points, last_round, wake_at, round>>
timerVars == <<timer, timers>>
quitVars == <<quits, quit_err>>

\* Time passes.
Tick ==
    \E dt \in Ticks :
        /\ now < MaxClock
        /\ now' = now + dt
        /\ UNCHANGED <<h_pc, peer_id, peer, msg_queue, timerVars, in_pc, out_pc, res,
                       rateVars, wrote, quitVars, OtherThanConnection>>

\* handle_tcp: set_keepalive fails; handle_tls: the handshake fails or
\* times out.  handle is not called.
SetupFails ==
    /\ h_pc = "accepted"
    /\ h_pc' = "refused"
    /\ UNCHANGED <<now, peer_id, peer, msg_queue, timerVars, in_pc, out_pc, res,
                   rateVars, wrote, quitVars, OtherThanConnection>>

\* handle is called and State::peer_joined returns: the peer is in the
\* state, unregistered, with the sending half of its channel.
PeerJoined ==
    /\ h_pc = "accepted"
    /\ h_pc' = "joined"
    /\ peer_id' = Some(1)
    /\ peer' = "Unregistered"
    /\ msg_queue' = [sender |-> "alive", queued |-> 0]
    /\ UNCHANGED <<now, timerVars, in_pc, out_pc, res,
                   rateVars, wrote, quitVars, OtherThanConnection>>

\* handle after peer_joined: the login_timeout task is spawned, and
\* try_join polls incoming and outgoing for the first time.
Spawn ==
    /\ h_pc = "joined"
    /\ h_pc' = "running"
    /\ timers' = timers + 1
    /\ timer' = [NoTimer EXCEPT !.pc = "spawned"]
    /\ in_pc' = "read"
    /\ out_pc' = "recv"
    /\ used_points' = 0
    /\ last_round' = now
    /\ UNCHANGED <<now, peer_id, peer, msg_queue, res, wake_at, round, wrote,
                   quitVars, OtherThanConnection>>

\* login_timeout: the setting is read and the delay starts.
TimerStarts ==
    \E timeout \in LoginTimeouts :
        /\ timer.pc = "spawned"
        /\ timer' = [timer EXCEPT !.pc = "delay", !.started = now, !.timeout = timeout,
                                  !.deadline = delay_for(now, timeout)]
        /\ UNCHANGED <<now, h_pc, peer_id, peer, msg_queue, timers, in_pc, out_pc, res,
                       rateVars, wrote, quitVars, OtherThanConnection>>

\* State::remove_if_unregistered: the entry of the peer after the call
remove_if_unregistered(p) == IF p = "Unregistered" THEN "removed" ELSE p

\* login_timeout: the delay is over and remove_if_unregistered is called.
\* A peer that is removed loses the sending half of its channel.
TimerFires ==
    /\ timer.pc = "delay"
    /\ now >= timer.deadline
    /\ timer' = [NoTimer EXCEPT !.pc = "done", !.found = peer]
    /\ peer' = remove_if_unregistered(peer)
    /\ msg_queue' = [msg_queue EXCEPT
                         !.sender = IF peer = "Unregistered" THEN "dropped" ELSE @]
    /\ UNCHANGED <<now, h_pc, peer_id, timers, in_pc, out_pc, res,
                   rateVars, wrote, quitVars, OtherThanConnection>>

\* try_join is still polling its two futures.
Polling == h_pc = "running" /\ res = None

\* incoming: one turn of the loop of rate_limit!, from the line read to
\* the next read_message or to the delay_for.  handle_message may complete
\* the registration of the peer.
ReadLine ==
    \E buf \in Bufs, outcome \in Outcomes, registers \in BOOLEAN :
        LET r == handle_buffer(buf, outcome)
            used == used_points + r.points
            elapsed == now - last_round
            left == credited(used, elapsed)
        IN  /\ Polling
            /\ in_pc = "read"
            /\ r.dispatched \/ (outcome = OkPoints(1) /\ ~registers)
            /\ registers => peer = "Unregistered" /\ outcome.tag = "Ok"
            /\ peer' = IF registers THEN "Registered" ELSE peer
            /\ IF r.tag = "Err"
               THEN /\ in_pc' = "err"
                    /\ res' = Some(r.err)
                    /\ round' = [NoRound EXCEPT !.phase = "err", !.buf = buf,
                                                !.dispatched = r.dispatched]
                    /\ UNCHANGED <<used_points, last_round, wake_at>>
               ELSE /\ res' = res
                    /\ round' = [phase |-> IF burst < used /\ burst < left
                                           THEN "sleep" ELSE "handled",
                                 buf |-> buf, dispatched |-> r.dispatched,
                                 wait |-> IF burst < used /\ burst < left
                                          THEN wait_millis(left) ELSE 0]
                    /\ IF burst < used
                       THEN /\ used_points' = left
                            /\ last_round' = last_round + elapsed
                            /\ IF burst < left
                               THEN /\ in_pc' = "sleep"
                                    /\ wake_at' = delay_for(now, wait_millis(left))
                               ELSE UNCHANGED <<in_pc, wake_at>>
                       ELSE /\ used_points' = used
                            /\ UNCHANGED <<in_pc, last_round, wake_at>>
            /\ UNCHANGED <<now, h_pc, peer_id, msg_queue, timerVars, out_pc, wrote,
                           quitVars, OtherThanConnection>>

\* incoming: read_message fails.
ReadFails ==
    /\ Polling
    /\ in_pc = "read"
    /\ in_pc' = "err"
    /\ res' = Some(ReadError)
    /\ UNCHANGED <<now, h_pc, peer_id, peer, msg_queue, timerVars, out_pc,
                   rateVars, wrote, quitVars, OtherThanConnection>>

\* rate_limit!: the delay_for is over.
Wake ==
    /\ Polling
    /\ in_pc = "sleep"
    /\ now >= wake_at
    /\ in_pc' = "read"
    /\ used_points' = burst
    /\ last_round' = last_round + round.wait
    /\ wake_at' = 0
    /\ round' = [round EXCEPT !.phase = "woke"]
    /\ UNCHANGED <<now, h_pc, peer_id, peer, msg_queue, timerVars, out_pc, res,
                   wrote, quitVars, OtherThanConnection>>

\* The strings sent to the peer and not yet written or lost with a failed
\* write.
InFlight == wrote + msg_queue.queued + (IF out_pc = "write" THEN 1 ELSE 0)

\* The state sends a string to the peer, msg_queue.send(msg), as long as it
\* holds the sending half.
SendToPeer ==
    /\ msg_queue.sender = "alive"
    /\ InFlight < MaxWritten
    /\ msg_queue' = [msg_queue EXCEPT !.queued = @ + 1]
    /\ UNCHANGED <<now, h_pc, peer_id, peer, timerVars, in_pc, out_pc, res,
                   rateVars, wrote, quitVars, OtherThanConnection>>

\* outgoing: recv gives the oldest string of the channel, whether the
\* sending half is alive or not, and write_all starts.
RecvOut ==
    /\ Polling
    /\ out_pc = "recv"
    /\ msg_queue.queued > 0
    /\ msg_queue' = [msg_queue EXCEPT !.queued = @ - 1]
    /\ out_pc' = "write"
    /\ UNCHANGED <<now, h_pc, peer_id, peer, timerVars, in_pc, res,
                   rateVars, wrote, quitVars, OtherThanConnection>>

\* outgoing: write_all has written the string and the loop is back at recv.
WriteOut ==
    /\ Polling
    /\ out_pc = "write"
    /\ out_pc' = "recv"
    /\ wrote' = wrote + 1
    /\ UNCHANGED <<now, h_pc, peer_id, peer, msg_queue, timerVars, in_pc, res,
                   rateVars, quitVars, OtherThanConnection>>

\* outgoing: write_all fails.
WriteOutFails ==
    /\ Polling
    /\ out_pc = "write"
    /\ out_pc' = "err"
    /\ res' = Some(WriteError)
    /\ UNCHANGED <<now, h_pc, peer_id, peer, msg_queue, timerVars, in_pc,
                   rateVars, wrote, quitVars, OtherThanConnection>>

\* outgoing: the channel is empty and the sending half is gone, recv
\* returns None and outgoing returns Ok(()).  try_join goes on polling
\* incoming.
ChannelClosed ==
    /\ Polling
    /\ out_pc = "recv"
    /\ msg_queue.queued = 0
    /\ msg_queue.sender = "dropped"
    /\ out_pc' = "ok"
    /\ UNCHANGED <<now, h_pc, peer_id, peer, msg_queue, timerVars, in_pc, res,
                   rateVars, wrote, quitVars, OtherThanConnection>>

\* handle: try_join has returned an error and peer_quit is called with it.
PeerQuit ==
    /\ h_pc = "running"
    /\ res # None
    /\ h_pc' = "done"
    /\ quits' = quits + 1
    /\ quit_err' = res
    /\ peer' = "removed"
    /\ msg_queue' = [msg_queue EXCEPT !.sender = "dropped"]
    /\ UNCHANGED <<now, peer_id, timerVars, in_pc, out_pc, res,
                   rateVars, wrote, OtherThanConnection>>

NextConnection ==
    \/ Tick
    \/ SetupFails
    \/ PeerJoined
    \/ Spawn
    \/ TimerStarts
    \/ TimerFires
    \/ ReadLine
    \/ ReadFails
    \/ Wake
    \/ SendToPeer
    \/ RecvOut
    \/ WriteOut
    \/ WriteOutFails
    \/ ChannelClosed
    \/ PeerQuit

SpecConnection == InitConnection /\ [][NextConnection]_vars

-----------------------------------------------------------------------------
(* Properties of one connection, checked under SpecConnection.             *)

\* C21: for every accepted connection exactly one login timer is started,
\* after peer_joined; it fires no sooner than login_timeout ms after it
\* started, and when it fires the peer is removed if it is still
\* unregistered, while a peer that registered before is not removed by it.
C21_LoginTimer ==
    /\ [](/\ h_pc \in {"running", "done"} => timers = 1
          /\ h_pc \in {"accepted", "joined", "refused"} => timers = 0 /\ timer.pc = "none"
          /\ timers > 0 => peer_id # None)
    /\ [][(timer.pc = "delay" /\ timer'.pc = "done") =>
              /\ now >= timer.started + timer.timeout
              /\ timer.timeout \in LoginTimeouts
              /\ peer = "Unregistered" => peer' = "removed"
              /\ peer = "Registered" => peer' = "Registered" /\ msg_queue' = msg_queue]_vars

\* The timer has fired on a peer that was still unregistered and removed it,
\* before peer_quit.
C21_Witness ==
    /\ timers = 1
    /\ timer.pc = "done"
    /\ timer.found = "Unregistered"
    /\ peer = "removed"
    /\ quits = 0

\* The timer has fired on a peer that had registered, and the peer stays.
TimerSparesRegistered ==
    (timer.pc = "done" /\ timer.found = "Registered") => (peer = "Registered" \/ quits = 1)

\* The steps handle takes by itself once the channel is closed or a future
\* has failed: the strings left in the channel are written, then outgoing
\* ends.
HandleGoesOn == RecvOut \/ WriteOut \/ WriteOutFails \/ ChannelClosed \/ PeerQuit

\* C22: once the outbound channel of a connection is closed, or its reader
\* or writer hits an I/O error, peer_quit is eventually called for the
\* peer, exactly once, and only after peer_joined returned its id.  In
\* finite runs: peer_quit is called at most once and only with a peer_id;
\* a handle that has ended has called it; and a handle whose channel is
\* closed or whose future has failed has a step to take towards it that
\* waits for nothing from the client.
C22_PeerQuitFollows ==
    /\ quits <= 1
    /\ quits = 1 => peer_id # None /\ h_pc = "done"
    /\ h_pc = "done" => quits = 1
    /\ (h_pc = "running" /\ (msg_queue.sender = "dropped" \/ res # None)) => ENABLED HandleGoesOn

\* What the code keeps of C22: after an error of the reader or the writer
\* peer_quit is the next step of handle and is called once with that error.
PeerQuitFollowsError ==
    /\ quits <= 1
    /\ quits = 1 => peer_id # None /\ h_pc = "done" /\ quit_err = res /\ res # None
    /\ h_pc = "done" => quits = 1
    /\ (h_pc = "running" /\ res # None) => ENABLED PeerQuit

\* C23: in the rate limiter of the reader, whenever used_points still
\* exceeds burst after the elapsed time is credited, the reader sleeps
\* (used - burst) / 4 * rate milliseconds, the division being that of
\* integers, before it handles the next line, and resumes with used_points
\* equal to burst; at the start of every handle used_points is at most burst.
C23_RateLimiterSleeps ==
    /\ in_pc = "read" => used_points <= burst
    /\ in_pc = "sleep" =>
           /\ burst < used_points
           /\ round.phase = "sleep"
           /\ wake_at = last_round + ((used_points - burst) \div 4) * rate
           /\ round.wait = wake_at - last_round
    /\ round.phase = "sleep" => in_pc = "sleep" \/ res # None
    /\ round.phase = "woke" => now >= last_round
    /\ (round.phase = "woke" /\ in_pc = "read") => used_points = burst

\* The reader slept two periods of rate and has resumed with burst.
C23_Witness ==
    /\ round.phase = "woke"
    /\ round.wait = 2 * rate
    /\ in_pc = "read"
    /\ used_points = burst

\* C24: an empty line read from a peer is never dispatched: handle_buffer
\* returns an error carrying CONNECTION_RESET, the reader loop ends with
\* it, and the connection ends in peer_quit with that error.
C24_EmptyLineResets ==
    (round.phase # "none" /\ round.buf = <<>>) =>
        /\ ~round.dispatched
        /\ round.phase = "err"
        /\ in_pc = "err"
        /\ res = Some(Error("UnexpectedEof", CONNECTION_RESET))
        /\ h_pc = "running" => ENABLED PeerQuit
        /\ h_pc # "running" => h_pc = "done" /\ quits = 1 /\ quit_err = res

\* An empty line was read and the connection has ended in peer_quit.
C24_Witness ==
    /\ round.phase = "err"
    /\ round.buf = <<>>
    /\ h_pc = "done"
    /\ quits = 1
    /\ quit_err = Some(Error("UnexpectedEof", CONNECTION_RESET))

\* A blank line, one that holds its terminator only, is no empty line for
\* handle_buffer: it is not dispatched, costs one point and the reader
\* goes on.
BlankLineIgnored ==
    (round.phase # "none" /\ round.buf = <<CR, LF>>) =>
        ~round.dispatched /\ round.phase \in {"handled", "sleep", "woke"}


\* C39: the rate limiter throttles every flood: a peer that keeps sending
\* lines back-to-back, each of cost 1, is put to sleep for a strictly
\* positive time once its used points exceed burst, so that the number of
\* lines handled in an interval is bounded by burst plus a term
\* proportional to its length over rate.
C39_FloodThrottled ==
    /\ in_pc = "read" => used_points <= burst
    /\ in_pc = "sleep" => (burst < used_points /\ round.wait > 0 /\ wake_at > last_round)
    /\ round.phase = "woke" => round.wait > 0

\* What the code keeps of C39: the reader sleeps a period of rate for every
\* four points over burst, so a strictly positive time once used_points
\* exceeds burst by four or more.
SleepsOnFourPointsOver ==
    /\ in_pc = "read" => used_points <= burst
    /\ in_pc = "sleep" =>
           /\ burst < used_points
           /\ round.wait = ((used_points - burst) \div 4) * rate
           /\ used_points - burst >= 4 => round.wait >= rate
-----------------------------------------------------------------------------
(* Further properties of the builders, checked under SpecBuilder.          *)

\* The positions of s that hold no whitespace.
Inked(s) == {i \in 1..Len(s) : s[i] \notin Whitespace}

\* s without its leading and trailing whitespace.
Stripped(s) ==
    IF Inked(s) = {} THEN <<>>
    ELSE SubSeq(s, CHOOSE i \in Inked(s) : \A j \in Inked(s) : i <= j,
                   CHOOSE i \in Inked(s) : \A j \in Inked(s) : i >= j)

\* The example of the documentation of MessageBuffer::param.
QuitPrefix ==
    <<"n", "i", "c", "k", "!", "u", "s", "e", "r", At, "1", "2", "7", ".", "0", ".", "0", ".", "1">>
Quit == <<"Q", "U", "I", "T">>
Chiao == <<Space, Space, "c", "h", "i", "a", "o", Space>>
QuitOutput ==
    <<Colon, "n", "i", "c", "k", "!", "u", "s", "e", "r", At, "1", "2", "7", ".", "0", ".", "0", ".", "1", Space, "Q", "U", "I", "T", Space, "c", "h", "i", "a", "o", CR, LF>>
QuitExample ==
    MessageBuffer_drop(param(param(with_prefix(<<>>, QuitPrefix, Quit), <<>>), Chiao))

\* C31: param(s) appends one space and s without its leading and trailing
\* whitespace when s holds a character that is no whitespace, and appends
\* nothing when s is empty or only whitespace; the prefix
\* nick!user@127.0.0.1, the command QUIT, param("") and param("  chiao ")
\* build ":nick!user@127.0.0.1 QUIT chiao" and CR LF.
C31_ParamTrims ==
    /\ b_call.op = "param" =>
           b_buf = IF Inked(b_call.arg) # {}
                   THEN b_call.before \o <<Space>> \o Stripped(b_call.arg)
                   ELSE b_call.before
    /\ QuitExample = QuitOutput

\* param has appended the trimmed parameter.
C31_Witness ==
    /\ b_call.op = "param"
    /\ b_call.arg = <<Space, "a", Space>>
    /\ b_buf = b_call.before \o <<Space, "a">>

\* param of whitespace has appended nothing.
ParamOfWhitespace ==
    (b_call.op = "param"
        /\ b_call.arg \in {<<>>, <<Tab, Space>>, <<VerticalTab, NoBreakSpace>>})
    => b_buf = b_call.before

\* The pieces of a list joined with c between them.
RECURSIVE Join(_, _)
Join(pieces, c) ==
    IF pieces = <<>> THEN <<>>
    ELSE IF Len(pieces) = 1 THEN pieces[1]
    ELSE pieces[1] \o <<c>> \o Join(Tail(pieces), c)

\* The message under way, as written so far.
Message == SubSeq(b_buf, b_call.start + 1, Len(b_buf))

\* C32: the tag section of a message built through tagged_message holds,
\* in order and separated by ';', exactly the entries of client_tags that
\* start with '+' but not with '+=', followed by the tags the server added;
\* when that list is empty the message has no tag section, neither '@' nor
\* the separating space.
C32_TagSection ==
    b_call.op = "prefixed_command" =>
        LET rest == (IF b_call.arg # <<>> THEN <<Colon>> \o b_call.arg \o <<Space>> ELSE <<>>)
                    \o Notice
        IN  Message = IF b_call.tags = <<>> THEN rest
                      ELSE <<At>> \o Join(b_call.tags, Semicolon) \o <<Space>> \o rest

\* A message with one forwarded client tag, out of three entries, and one
\* tag of the server.
C32_Witness ==
    /\ b_call.op = "prefixed_command"
    /\ Len(b_call.tags) = 2
    /\ b_call.tags[1] = <<Plus, "c">>
    /\ Head(Message) = At

\* A message started with tagged_message that got no tag has no '@'.
NoTagsNoSection ==
    (b_call.op = "prefixed_command" /\ b_call.tags = <<>>) => Head(Message) # At

\* The escape mapping of tag values, and its inverse.
Encoded(c) ==
    CASE c = Semicolon -> <<Backslash, Colon>>
      [] c = Space -> <<Backslash, "s">>
      [] c = CR -> <<Backslash, "r">>
      [] c = LF -> <<Backslash, "n">>
      [] c = Backslash -> <<Backslash, Backslash>>
      [] OTHER -> <<c>>

Decoded(c) ==
    CASE c = Colon -> Semicolon
      [] c = "s" -> Space
      [] c = "r" -> CR
      [] c = "n" -> LF
      [] OTHER -> c

RECURSIVE EncodeAll(_)
EncodeAll(v) == IF v = <<>> THEN <<>> ELSE Encoded(Head(v)) \o EncodeAll(Tail(v))

RECURSIVE unescape(_)
unescape(w) ==
    IF w = <<>> THEN <<>>
    ELSE IF Head(w) = Backslash /\ Len(w) >= 2
    THEN <<Decoded(w[2])>> \o unescape(SubSeq(w, 3, Len(w)))
    ELSE <<Head(w)>> \o unescape(Tail(w))

\* What the last tag call wrote before the value: the separator, the key
\* and '='.
TagHead ==
    b_call.before \o (IF Len(b_call.tags) > 1 THEN <<Semicolon>> ELSE <<>>)
        \o b_call.arg \o <<Equals>>

\* The value the last tag call wrote.
WrittenValue == SubSeq(b_buf, Len(TagHead) + 1, Len(b_buf))

\* C33: the value written by tag is escape-encoded: ';' becomes '\:',
\* space '\s', CR '\r', LF '\n', backslash '\\', and every other character
\* is copied; the encoded value holds no raw ';', space, CR or LF, and
\* decoding it with the inverse mapping gives back the value.
C33_ValueEscaped ==
    (b_call.op = "tag" /\ b_call.value # None) =>
        /\ starts_with(b_buf, TagHead)
        /\ WrittenValue = EncodeAll(b_call.value[1])
        /\ \A i \in 1..Len(WrittenValue) : WrittenValue[i] \notin {Semicolon, Space, CR, LF}
        /\ unescape(WrittenValue) = b_call.value[1]

\* A value with ';', a backslash followed by s, CR and LF was written.
C33_Witness ==
    /\ b_call.op = "tag"
    /\ b_call.value = Some(<<Semicolon, Backslash, "s", CR, LF, At>>)
    /\ WrittenValue =
           <<Backslash, Colon, Backslash, Backslash, "s", Backslash, "r", Backslash, "n", At>>

\* C34: save_tag_len writes 0 when no tag has been added to the message and
\* otherwise the length of the tag section from its '@' through the space
\* that separates it from the prefix or command, for every tag content: the
\* offset at which the prefix or command starts.
C34_SaveTagLen ==
    b_call.op = "save_tag_len" =>
        b_call.out = IF b_call.tags = <<>> THEN 0 ELSE len(Message) + 1

\* What the code keeps of C34: the claim for a tag section that does not
\* end with '@'.
SaveTagLenUnlessAtLast ==
    (b_call.op = "save_tag_len" /\ (b_call.tags = <<>> \/ b_buf[Len(b_buf)] # At)) =>
        b_call.out = IF b_call.tags = <<>> THEN 0 ELSE len(Message) + 1

-----------------------------------------------------------------------------
(* Further properties of match_mask, checked under SpecMatch.              *)

\* The result the table of test_mask_match expects of the call made.
Expected(row) == IF row.is_match THEN "true" ELSE "false"

\* C35: match_mask returns the expected boolean for every row of the table
\* of test_mask_match, among them ("a*b?c*x", "abxbbxdbxebxczzx") true,
\* ("a*b?c*x", "abxbbxdbxebxczzy") false, ("*x", "xxx") true,
\* ("a?b", "a???b") true and ("a???b", "a???b") false.
C35_TestTable ==
    \A row \in test_mask_match :
        (m_mask = row.mask /\ m_s = row.s /\ m_out # "none") => m_out = Expected(row)

\* What the code keeps of C35: the rows of the table whose string holds no
\* question mark.
TestTableWithoutQuestionMarks ==
    \A row \in test_mask_match :
        ( /\ m_mask = row.mask
          /\ m_s = row.s
          /\ m_out # "none"
          /\ \A i \in 1..Len(row.s) : row.s[i] # Question )
        => m_out = Expected(row)

\* C40: match_mask(mask, s) terminates with a boolean and never panics, for
\* every mask and every string, strings with characters of more than one
\* byte under a mask with '*' included.
C40_MatchMaskNeverPanics == m_out \in {"none", "true", "false"}

\* What the code keeps of C40: no panic on strings of one-byte characters.
NoPanicOnOneByteStrings ==
    (\A i \in 1..Len(m_s) : m_s[i] # Wide) => m_out \in {"none", "true", "false"}

-----------------------------------------------------------------------------
(* Further properties of ReplyBuffer, checked under SpecReplyBuffer.       *)

\* C36: in every reachable state of a ReplyBuffer, a pending label
\* (has_label = true) implies that the buffer is still empty and that no
\* batch is open.
C36_PendingLabelMeansUntouched ==
    rb.has_label => (rb.buf = <<>> /\ rb.batch = None)

\* batch_end and then lr_batch_begin were called on a labeled buffer: the
\* first left the label pending, the second has used it.
C36_Witness ==
    /\ rb_call.op = "lr_batch_begin"
    /\ rb_call.before.has_label
    /\ rb_call.before.buf = <<>>
    /\ rb_n >= 2
    /\ ~rb.has_label
    /\ rb.batch = Some(0)
    /\ Len(Lines) = 1
    /\ tag_value(Lines[1], LabelKey) # None

\* The BATCH -id lines after line i of the output that name the id of line i.
ClosingLines(i) ==
    {j \in (i + 1)..Len(Lines) :
         closes_batch(Lines[j]) /\ batch_id(Lines[j]) = batch_id(Lines[i])}

\* C37: after lr_end has returned, the BATCH lines of the output are
\* balanced and properly nested: every BATCH +id line is followed by exactly
\* one BATCH -id line for the same id, batches close in the reverse order of
\* their opening, and no batch is open.
C37_BatchLinesBalanced ==
    (rb_call.op = "lr_end" /\ rb_call.out = "returned") =>
        /\ \A i \in 1..Len(Lines) :
               opens_batch(Lines[i]) => Cardinality(ClosingLines(i)) = 1
        /\ \A j \in 1..Len(Lines) :
               closes_batch(Lines[j]) =>
                   LET open == open_after(SubSeq(Lines, 1, j - 1), <<>>)
                   IN  open # <<>> /\ batch_id(Lines[j]) = Head(open)
        /\ open_after(Lines, <<>>) = <<>>
        /\ rb.batch = None

\* What the code keeps of C37: after lr_end has returned every BATCH -id
\* line closes the innermost open batch, every BATCH +id line is followed by
\* a BATCH -id line for its id, and no batch is open.
BatchLinesNested ==
    (rb_call.op = "lr_end" /\ rb_call.out = "returned") =>
        /\ \A i \in 1..Len(Lines) :
               opens_batch(Lines[i]) => Cardinality(ClosingLines(i)) >= 1
        /\ \A j \in 1..Len(Lines) :
               closes_batch(Lines[j]) =>
                   LET open == open_after(SubSeq(Lines, 1, j - 1), <<>>)
                   IN  open # <<>> /\ batch_id(Lines[j]) = Head(open)
        /\ open_after(Lines, <<>>) = <<>>
        /\ rb.batch = None

\* The batch tag of a line written while the batches open are the ids of
\* open, innermost first.
EnclosingTag(open) == IF open = <<>> THEN None ELSE Some(Head(open))

\* C38: the BATCH +<id> line and the BATCH -<id> line of a batch opened by
\* batch_begin are tagged alike, with the id of the enclosing batch when
\* there is one and with no batch tag otherwise; neither line carries the
\* batch's own id as its batch tag.
C38_BatchLinesTaggedAlike ==
    /\ \A i \in 1..Len(Lines) :
           (opens_batch(Lines[i]) /\ ~opens_labeled_response(Lines[i])) =>
               /\ tag_value(Lines[i], BatchKey)
                      = EnclosingTag(open_after(SubSeq(Lines, 1, i - 1), <<>>))
               /\ tag_value(Lines[i], BatchKey) # Some(batch_id(Lines[i]))
    /\ \A j \in 1..Len(Lines) :
           closes_batch(Lines[j]) =>
               /\ tag_value(Lines[j], BatchKey)
                      = EnclosingTag(open_after(SubSeq(Lines, 1, j), <<>>))
               /\ tag_value(Lines[j], BatchKey) # Some(batch_id(Lines[j]))

\* What the code does: the BATCH -<id> line is tagged with the id of the
\* enclosing batch or not at all, and the BATCH +<id> line of batch_begin
\* carries the id of the batch it opens.
BatchBeginTagsItsOwnId ==
    /\ \A i \in 1..Len(Lines) :
           (opens_batch(Lines[i]) /\ ~opens_labeled_response(Lines[i])) =>
               tag_value(Lines[i], BatchKey) = Some(batch_id(Lines[i]))
    /\ \A j \in 1..Len(Lines) :
           closes_batch(Lines[j]) =>
               /\ tag_value(Lines[j], BatchKey)
                      = EnclosingTag(open_after(SubSeq(Lines, 1, j), <<>>))
               /\ tag_value(Lines[j], BatchKey) # Some(batch_id(Lines[j]))

====
